---- MODULE Spec2Model ----
(***************************************************************************)
(* A model of the protocol-handling layer of the multi-protocol proxy       *)
(* gateway: the SOCKS5 state machine (protocols/socks5_server.py), the     *)
(* HTTP forward proxy (protocols/http_server.py) and the Shadowsocks       *)
(* connection handler (protocols/shadowsocks_server.py).                   *)
(*                                                                         *)
(* One connection task is modelled per listener.  Bytes are integers       *)
(* 0..255, byte strings are sequences of them, and a Python str is the     *)
(* sequence of its code points.  The client and the upstream server are    *)
(* the environment: they put bytes into the two asyncio StreamReader       *)
(* buffers, half-close, or reset their connection.  A handler runs from    *)
(* one dial/relay suspension point to the next as one action; every        *)
(* reader.read(n) inside it takes what the buffer holds, as asyncio does.  *)
(***************************************************************************)
EXTENDS Integers, Sequences, FiniteSets, TLC

(***************************************************************************)
(* Bounds of the model.                                                    *)
(***************************************************************************)
MaxMethods == 2      \* longest method list a modelled greeting offers
MaxChunks == 2       \* payload chunks each peer sends during a relay

(***************************************************************************)
(* Program constants.                                                      *)
(***************************************************************************)
SOCKS_VERSION == 5
AUTH_NO_AUTH == 0
AUTH_USERNAME_PASSWORD == 2
AUTH_NO_ACCEPTABLE == 255
CMD_CONNECT == 1
ADDR_IPV4 == 1
ADDR_DOMAIN == 3
ADDR_IPV6 == 4
REP_SUCCESS == 0
REP_GENERAL_FAILURE == 1
REP_CONNECTION_REFUSED == 5
REP_COMMAND_NOT_SUPPORTED == 7
REP_ADDRESS_TYPE_NOT_SUPPORTED == 8
USERPASS_VERSION == 1
RELAY_CHUNK == 8192

VARIABLES
    username,       \* self.username of the listener (None, "" or a str)
    password,       \* self.password of the listener
    pc,             \* where the connection task stands
    rx,             \* client StreamReader: bytes received and not yet read
    rx_eof,         \* client StreamReader: EOF has been fed
    client_lost,    \* the client connection was reset (reads and drain raise)
    client_out,     \* the writer.write calls on the client writer, in order
    client_writer,  \* "open" or "closed"
    target,         \* (host, port) the task dials
    dial,           \* outcome of asyncio.open_connection, "none" before it
    upstream,       \* target_writer: "none", "open" or "closed"
    urx,            \* target StreamReader: bytes received and not yet read
    urx_eof,        \* target StreamReader: EOF has been fed
    target_lost,    \* the upstream connection was reset
    target_out,     \* the write calls on target_writer, in order
    fwd,            \* the two copy tasks of the relay: "idle", "run", "done"
    connections,    \* keys of self.connections
    sent,           \* payload chunks sent so far by the client / the upstream
    last,           \* the last handler run by the task: what it read and returned
    req,            \* the HTTP request the task is forwarding (its locals)
    method,         \* ShadowsocksCrypto.method of the Shadowsocks listener
    iv_data,        \* the IV the Shadowsocks task read (its local iv_data)
    protocol,       \* which listener accepted the connection: its stats tag
    stats,          \* the StatsCollector shared by the listeners
    lock,           \* StatsCollector.lock: the thread that holds it, and how often
    threads,        \* the threads calling the StatsCollector: their frames
    history,        \* the StatsCollector calls that have returned
    now,            \* time.time(), in seconds
    config,         \* MultiProtocolServer.config: the protocol blocks
    servers,        \* MultiProtocolServer.servers: the listeners by tag
    tasks,          \* the start() coroutine of each listener
    conns,          \* the connection tasks the listeners have spawned
    sup             \* MultiProtocolServer: where start_servers stands

vars == << username, password, pc, rx, rx_eof, client_lost, client_out,
           client_writer, target, dial, upstream, urx, urx_eof, target_lost,
           target_out,
           fwd, connections, sent, last, req, method, iv_data,
           protocol, stats, lock, threads, history, now,
           config, servers, tasks, conns, sup >>
\* what belongs to the supervisor and its listeners
supervisorVars == << config, servers, tasks, conns, sup >>
\* what belongs to one connection task and to the threads
taskVars == << username, password, pc, rx, rx_eof, client_lost, client_out,
               client_writer, target, dial, upstream, urx, urx_eof, target_lost,
               target_out, fwd, connections, sent, last, req, method, iv_data,
               protocol, lock, threads, history >>

(***************************************************************************)
(* Python values.                                                          *)
(***************************************************************************)
None == [none |-> TRUE, s |-> << >>]
Str(s) == [none |-> FALSE, s |-> s]
\* bool(x) of an Optional[str]
Truthy(x) == ~x.none /\ x.s # << >>

Min(a, b) == IF a < b THEN a ELSE b
Take(s, n) == SubSeq(s, 1, Min(n, Len(s)))
Drop(s, n) == SubSeq(s, Min(n, Len(s)) + 1, Len(s))
SeqsUpTo(S, n) == UNION { [1..k -> S] : k \in 0..n }

\* bytes.decode('utf-8'): the modelled byte strings are ASCII or hold a byte
\* 0xF8..0xFF, which no UTF-8 sequence contains.
Utf8Decode(b) ==
    IF \E i \in 1..Len(b) : b[i] >= 128
    THEN [ok |-> FALSE, s |-> << >>]
    ELSE [ok |-> TRUE, s |-> b]

(***************************************************************************)
(* asyncio streams.                                                        *)
(***************************************************************************)
\* await asyncio.wait_for(reader.read(n), timeout): at most n of the buffered
\* bytes; b'' for n = 0 or at EOF; asyncio.TimeoutError when nothing arrives;
\* the connection's exception once the peer has reset it.
Read(n, buf, eof, lost) ==
    IF lost THEN [st |-> "error", data |-> << >>, rest |-> buf]
    ELSE IF n = 0 THEN [st |-> "ok", data |-> << >>, rest |-> buf]
    ELSE IF buf # << >> THEN [st |-> "ok", data |-> Take(buf, n), rest |-> Drop(buf, n)]
    ELSE IF eof THEN [st |-> "ok", data |-> << >>, rest |-> buf]
    ELSE [st |-> "timeout", data |-> << >>, rest |-> buf]

\* One writer.write call on the client writer: the bytes, and whether the
\* listener produced them ("reply") or copied them from upstream ("relay").
Reply(b) == [kind |-> "reply", data |-> b]
Relayed(b) == [kind |-> "relay", data |-> b]

(***************************************************************************)
(* socket.inet_ntoa / socket.inet_ntop and struct.unpack('!H'); 46 is '.'   *)
(* and 58 is ':'.                                                          *)
(***************************************************************************)
Digit(d) == 48 + d
Dec(n) ==
    IF n >= 100 THEN << Digit(n \div 100), Digit((n \div 10) % 10), Digit(n % 10) >>
    ELSE IF n >= 10 THEN << Digit(n \div 10), Digit(n % 10) >>
    ELSE << Digit(n) >>
inet_ntoa(b) ==
    Dec(b[1]) \o << 46 >> \o Dec(b[2]) \o << 46 >> \o Dec(b[3]) \o << 46 >> \o Dec(b[4])

HexDigit(d) == IF d < 10 THEN 48 + d ELSE 87 + d
Hex(n) ==
    IF n >= 4096 THEN << HexDigit(n \div 4096), HexDigit((n \div 256) % 16),
                         HexDigit((n \div 16) % 16), HexDigit(n % 16) >>
    ELSE IF n >= 256 THEN << HexDigit(n \div 256), HexDigit((n \div 16) % 16), HexDigit(n % 16) >>
    ELSE IF n >= 16 THEN << HexDigit(n \div 16), HexDigit(n % 16) >>
    ELSE << HexDigit(n) >>
Groups(b) == [i \in 1..8 |-> b[2 * i - 1] * 256 + b[2 * i]]
\* length of the run of zero groups that starts at group i
ZeroRun(g, i) ==
    IF g[i] # 0 THEN 0
    ELSE CHOOSE n \in 1..(9 - i) :
            /\ \A k \in i..(i + n - 1) : g[k] = 0
            /\ (i + n > 8 \/ g[i + n] # 0)
RECURSIVE JoinGroups(_, _, _)
JoinGroups(g, from, to) ==
    IF from > to THEN << >>
    ELSE IF from = to THEN Hex(g[from])
    ELSE Hex(g[from]) \o << 58 >> \o JoinGroups(g, from + 1, to)
\* inet_ntop(AF_INET6, b): lower-case hex groups, the first longest run of two
\* or more zero groups written "::" (addresses that embed an IPv4 address are
\* not among the modelled ones).
inet_ntop(b) ==
    LET g == Groups(b)
        best == CHOOSE i \in 1..8 :
                    /\ \A j \in 1..8 : ZeroRun(g, j) <= ZeroRun(g, i)
                    /\ \A j \in 1..(i - 1) : ZeroRun(g, j) < ZeroRun(g, i)
        n == ZeroRun(g, best)
    IN  IF n < 2 THEN JoinGroups(g, 1, 8)
        ELSE JoinGroups(g, 1, best - 1) \o << 58, 58 >> \o JoinGroups(g, best + n, 8)
UnpackH(b) == b[1] * 256 + b[2]

(***************************************************************************)
(* Python str and bytes operations, on sequences of code points.           *)
(***************************************************************************)
IsSpace(c) == c \in {9, 10, 11, 12, 13, 32}
\* str.lower() on ASCII text
Lower(s) == [i \in 1..Len(s) |-> IF s[i] >= 65 /\ s[i] <= 90 THEN s[i] + 32 ELSE s[i]]
\* s.startswith(p)
StartsWith(s, p) == Len(s) >= Len(p) /\ SubSeq(s, 1, Len(p)) = p
\* s.find(p) + 1: the first position where p occurs in s, 0 when it does not
Find(s, p) ==
    LET hits == { i \in 1..(Len(s) - Len(p) + 1) : SubSeq(s, i, i + Len(p) - 1) = p } IN
    IF hits = {} THEN 0 ELSE CHOOSE i \in hits : \A j \in hits : i <= j
\* p in s
Contains(s, p) == Find(s, p) # 0
\* s.split(sep)
RECURSIVE Split(_, _)
Split(s, sep) ==
    LET i == Find(s, sep) IN
    IF i = 0 THEN << s >>
    ELSE << SubSeq(s, 1, i - 1) >> \o Split(SubSeq(s, i + Len(sep), Len(s)), sep)
\* s.split(sep, 1)
Split1(s, sep) ==
    LET i == Find(s, sep) IN
    IF i = 0 THEN << s >>
    ELSE << SubSeq(s, 1, i - 1), SubSeq(s, i + Len(sep), Len(s)) >>
\* s.strip()
RECURSIVE LStrip(_)
LStrip(s) == IF s # << >> /\ IsSpace(s[1]) THEN LStrip(Tail(s)) ELSE s
RECURSIVE RStrip(_)
RStrip(s) == IF s # << >> /\ IsSpace(s[Len(s)]) THEN RStrip(SubSeq(s, 1, Len(s) - 1)) ELSE s
Strip(s) == RStrip(LStrip(s))
\* s.split(): the maximal runs of non-whitespace
RECURSIVE SplitWs(_)
SplitWs(s) ==
    LET t == LStrip(s) IN
    IF t = << >> THEN << >>
    ELSE LET ends == { i \in 1..Len(t) : IsSpace(t[i]) }
             n == IF ends = {} THEN Len(t) + 1 ELSE CHOOSE i \in ends : \A j \in ends : i <= j
         IN  << SubSeq(t, 1, n - 1) >> \o SplitWs(SubSeq(t, n, Len(t)))
\* int(s): decimal digits, surrounding whitespace allowed; ValueError otherwise
RECURSIVE DigitsValue(_)
DigitsValue(d) ==
    IF d = << >> THEN 0 ELSE 10 * DigitsValue(SubSeq(d, 1, Len(d) - 1)) + (d[Len(d)] - 48)
ParseInt(s) ==
    LET d == Strip(s) IN
    IF d = << >> \/ \E i \in 1..Len(d) : d[i] < 48 \/ d[i] > 57
    THEN [ok |-> FALSE, v |-> 0]
    ELSE [ok |-> TRUE, v |-> DigitsValue(d)]
\* sep.join(lines)
RECURSIVE Join(_, _)
Join(lines, sep) ==
    IF lines = << >> THEN << >>
    ELSE IF Len(lines) = 1 THEN lines[1]
    ELSE lines[1] \o sep \o Join(Tail(lines), sep)

\* base64.b64decode(s): characters outside the alphabet are discarded, every
\* four characters give three bytes, and a final group of two or three
\* characters needs its '=' padding (binascii.Error otherwise).
B64Value(c) ==
    IF c >= 65 /\ c <= 90 THEN c - 65
    ELSE IF c >= 97 /\ c <= 122 THEN c - 71
    ELSE IF c >= 48 /\ c <= 57 THEN c + 4
    ELSE IF c = 43 THEN 62
    ELSE IF c = 47 THEN 63
    ELSE 64
RECURSIVE B64Quads(_)
B64Quads(v) ==
    IF Len(v) < 4 THEN << >>
    ELSE << v[1] * 4 + v[2] \div 16,
            (v[2] % 16) * 16 + v[3] \div 4,
            (v[3] % 4) * 64 + v[4] >> \o B64Quads(SubSeq(v, 5, Len(v)))
b64decode(s) ==
    LET firstpad == Find(s, << 61 >>)
        body == IF firstpad = 0 THEN s ELSE SubSeq(s, 1, firstpad - 1)
        npad == Cardinality({ i \in 1..Len(s) : s[i] = 61 })
        v == SelectSeq([i \in 1..Len(body) |-> B64Value(body[i])], LAMBDA x : x < 64)
        full == B64Quads(v)
        r == Len(v) % 4
        t == SubSeq(v, Len(v) - r + 1, Len(v))
    IN  IF r = 0 THEN [ok |-> TRUE, b |-> full]
        ELSE IF r = 2 /\ npad >= 2
        THEN [ok |-> TRUE, b |-> full \o << t[1] * 4 + t[2] \div 16 >>]
        ELSE IF r = 3 /\ npad >= 1
        THEN [ok |-> TRUE, b |-> full \o << t[1] * 4 + t[2] \div 16,
                                            (t[2] % 16) * 16 + t[3] \div 4 >>]
        ELSE [ok |-> FALSE, b |-> << >>]

(***************************************************************************)
(* str literals: Text("...") is the sequence of code points of an ASCII   *)
(* literal.                                                               *)
(***************************************************************************)
UpperTable == "-./0123456789:;<=>?@ABCDEFGHIJKLMNOPQRSTUVWXYZ"
LowerTable == "abcdefghijklmnopqrstuvwxyz"
IndexIn(table, c) ==
    IF \E k \in 1..Len(table) : SubSeq(table, k, k) = c
    THEN CHOOSE k \in 1..Len(table) : SubSeq(table, k, k) = c
    ELSE 0
Ord(c) ==
    IF c = " " THEN 32
    ELSE IF c = "\"" THEN 34
    ELSE IF IndexIn(UpperTable, c) # 0 THEN 44 + IndexIn(UpperTable, c)
    ELSE 96 + IndexIn(LowerTable, c)
Text(s) == [i \in 1..Len(s) |-> Ord(SubSeq(s, i, i))]
CRLF == << 13, 10 >>

(***************************************************************************)
(* utils/stats.py: the StatsCollector.  Each method is the sequence of its *)
(* statements, named by their line in stats.py; a connection task runs a   *)
(* method in one piece (Run), a thread runs it statement by statement      *)
(* under self.lock.  Clock values and the hourly ring, which copy the      *)
(* counters and never change them, are left out.                           *)
(***************************************************************************)
Socks5Tag == Text("socks5")
HttpTag == Text("http")
ShadowsocksTag == Text("shadowsocks")
StatsTag(p) == IF p = "socks5" THEN Socks5Tag ELSE IF p = "http" THEN HttpTag ELSE ShadowsocksTag

EmptyMap == [k \in {} |-> 0]
Put(f, k, v) == [x \in DOMAIN f \cup {k} |-> IF x = k THEN v ELSE f[x]]
Del(f, k) == [x \in DOMAIN f \ {k} |-> f[x]]

HOUR == 3600
RING == 24
\* the clock when the collector is constructed
Epoch == 7300
\* stats.py 34-51
StatsCollector ==
    [active_connections |-> EmptyMap, protocol_stats |-> EmptyMap,
     total_connections |-> 0, total_upload |-> 0, total_download |-> 0,
     start_time |-> now, hourly_stats |-> << >>, last_hour_update |-> now \div HOUR]
\* stats.py 23-29 and 13-21
TrafficStats(tag) == [protocol |-> tag, upload |-> 0, download |-> 0, connections |-> 0]
ConnectionInfo(tag, client_addr, target_addr) ==
    [protocol |-> tag, client_addr |-> client_addr, target_addr |-> target_addr,
     bytes_sent |-> 0, bytes_received |-> 0]

\* str(n) of an int in an f-string
RECURSIVE str_int(_)
str_int(n) == IF n < 10 THEN << Digit(n) >> ELSE Append(str_int(n \div 10), Digit(n % 10))
\* f"{protocol}:{client_addr[0]}:{client_addr[1]}", 58 is ':'
connection_id(tag, client_addr) ==
    tag \o << 58 >> \o client_addr.host \o << 58 >> \o str_int(client_addr.port)

Call(op, tag, client_addr, target_addr, upload, download) ==
    [op |-> op, protocol |-> tag, client_addr |-> client_addr,
     target_addr |-> target_addr, upload |-> upload, download |-> download,
     time |-> 0]
\* the call, with what time.time() returns while it runs
At(c, t) == [c EXCEPT !.time = t]
Endpoint(host, port) == [host |-> host, port |-> port]
NoEndpoint == Endpoint(<< >>, 0)

ProgramResetKeepsTotals(op) ==
    IF op = "add_connection" THEN << 65, 68, 71, 72 >>
    ELSE IF op = "remove_connection" THEN << 84, 86 >>
    ELSE IF op = "add_traffic" THEN << 92, 95, 96, 99, 100, 103 >>
    ELSE IF op = "get_current_stats" THEN << 137, 138, 139, 140, 141 >>
    ELSE << 199, 200, 201, 205, 206 >>
ProgramTrafficCountsConnection(op) ==
    IF op = "add_connection" THEN << 65, 68, 71, 72 >>
    ELSE IF op = "remove_connection" THEN << 84, 86 >>
    ELSE IF op = "add_traffic" THEN << 92, 71, 95, 96, 99, 100, 103 >>
    ELSE IF op = "get_current_stats" THEN << 137, 138, 139, 140, 141 >>
    ELSE << 199, 200, 201, 202, 203, 204, 205, 206 >>
\* the statements of each method that read or write the collector's fields
Program(op) ==
    IF op = "add_connection" THEN << 65, 68, 71, 72 >>
    ELSE IF op = "remove_connection" THEN << 84, 86 >>
    ELSE IF op = "add_traffic" THEN << 92, 95, 96, 99, 100, 103 >>
    ELSE IF op = "get_current_stats" THEN << 137, 138, 139, 140, 141 >>
    ELSE << 199, 200, 201, 202, 203, 204, 205, 206 >>

EnsureProtocolFresh(s, tag) == [s EXCEPT !.protocol_stats = Put(@, tag, TrafficStats(tag))]
\* `if protocol not in self.protocol_stats: ...` (68-69 and 92-93)
EnsureProtocol(s, tag) ==
    IF tag \in DOMAIN s.protocol_stats THEN s
    ELSE [s EXCEPT !.protocol_stats = Put(@, tag, TrafficStats(tag))]
\* remove_connection, 79-84 and 86, both under `if connection_id in ...`
ForgetLiveUnguarded(s, tag, id) ==
    IF tag \in DOMAIN s.protocol_stats
    THEN [s EXCEPT !.protocol_stats[tag].connections = @ - 1]
    ELSE s
ForgetLive(s, tag, id) ==
    IF id \in DOMAIN s.active_connections /\ tag \in DOMAIN s.protocol_stats
    THEN [s EXCEPT !.protocol_stats[tag].connections = @ - 1]
    ELSE s
ForgetRecordNever(s, id) == s
ForgetRecord(s, id) ==
    IF id \in DOMAIN s.active_connections
    THEN [s EXCEPT !.active_connections = Del(@, id)]
    ELSE s

UpdateHourlyUnbounded(s, t) ==
    IF t \div HOUR > s.last_hour_update
    THEN [s EXCEPT !.hourly_stats =
                        Append(@, [hour |-> t \div HOUR, timestamp |-> (t \div HOUR) * HOUR,
                                   upload |-> s.total_upload, download |-> s.total_download,
                                   connections |-> s.total_connections,
                                   protocols |-> s.protocol_stats]),
                   !.last_hour_update = t \div HOUR]
    ELSE s
\* stats.py 105-126, at the time t that time.time() returns
_update_hourly_stats(s, t) ==
    LET current_hour == t \div HOUR
        hour_stats == [hour |-> current_hour, timestamp |-> current_hour * HOUR,
                       upload |-> s.total_upload, download |-> s.total_download,
                       connections |-> s.total_connections,
                       protocols |-> s.protocol_stats]
        appended == Append(s.hourly_stats, hour_stats)
    IN  IF current_hour > s.last_hour_update
        THEN [s EXCEPT !.hourly_stats =
                            IF Len(appended) > RING
                            THEN SubSeq(appended, Len(appended) - RING + 1, Len(appended))
                            ELSE appended,
                       !.last_hour_update = current_hour]
        ELSE s

\* the collector after the statement at line l of call c
Line(s, c, l) ==
    CASE l = 65 -> [s EXCEPT !.active_connections =
                        Put(@, connection_id(c.protocol, c.client_addr),
                            ConnectionInfo(c.protocol, c.client_addr, c.target_addr))]
      [] l = 68 -> EnsureProtocol(s, c.protocol)
      [] l = 71 -> [s EXCEPT !.protocol_stats[c.protocol].connections = @ + 1]
      [] l = 72 -> [s EXCEPT !.total_connections = @ + 1]
      [] l = 84 -> ForgetLive(s, c.protocol, connection_id(c.protocol, c.client_addr))
      [] l = 86 -> ForgetRecord(s, connection_id(c.protocol, c.client_addr))
      [] l = 92 -> EnsureProtocol(s, c.protocol)
      [] l = 95 -> [s EXCEPT !.protocol_stats[c.protocol].upload = @ + c.upload]
      [] l = 96 -> [s EXCEPT !.protocol_stats[c.protocol].download = @ + c.download]
      [] l = 99 -> [s EXCEPT !.total_upload = @ + c.upload]
      [] l = 100 -> [s EXCEPT !.total_download = @ + c.download]
      [] l = 103 -> _update_hourly_stats(s, c.time)
      [] l = 199 -> [s EXCEPT !.start_time = c.time]
      [] l = 200 -> [s EXCEPT !.active_connections = EmptyMap]
      [] l = 201 -> [s EXCEPT !.protocol_stats = EmptyMap]
      [] l = 202 -> [s EXCEPT !.total_connections = 0]
      [] l = 203 -> [s EXCEPT !.total_upload = 0]
      [] l = 204 -> [s EXCEPT !.total_download = 0]
      [] l = 205 -> [s EXCEPT !.hourly_stats = << >>]
      [] l = 206 -> [s EXCEPT !.last_hour_update = c.time \div HOUR]
      [] OTHER -> s

\* the dict get_current_stats is building, after the entry at line l (137-141)
NoSnapshot ==
    [total_upload |-> 0, total_download |-> 0, total_connections |-> 0,
     active_connections |-> 0, protocols |-> EmptyMap]
Observe(d, s, l) ==
    CASE l = 137 -> [d EXCEPT !.total_upload = s.total_upload]
      [] l = 138 -> [d EXCEPT !.total_download = s.total_download]
      [] l = 139 -> [d EXCEPT !.total_connections = s.total_connections]
      [] l = 140 -> [d EXCEPT !.active_connections = Cardinality(DOMAIN s.active_connections)]
      [] l = 141 -> [d EXCEPT !.protocols = s.protocol_stats]
      [] OTHER -> d

RECURSIVE Run(_, _, _)
Run(s, c, lines) ==
    IF lines = << >> THEN s ELSE Run(Line(s, c, Head(lines)), c, Tail(lines))

\* stats.py 53-72, 74-86, 88-103: the methods as a connection task calls them
add_connection(s, tag, client_addr, target_addr) ==
    Run(s, At(Call("add_connection", tag, client_addr, target_addr, 0, 0), now),
        Program("add_connection"))
remove_connection(s, tag, client_addr) ==
    Run(s, At(Call("remove_connection", tag, client_addr, NoEndpoint, 0, 0), now),
        Program("remove_connection"))
add_traffic(s, tag, upload, download) ==
    Run(s, At(Call("add_traffic", tag, NoEndpoint, NoEndpoint, upload, download), now),
        Program("add_traffic"))

\* threading.RLock: its owner and its recursion count
Unlocked == [owner |-> "none", count |-> 0]
Threads == {"t1", "t2"}
NoCall == Call("none", << >>, NoEndpoint, NoEndpoint, 0, 0)
\* a thread's frame: the call it is in, the statement it is at, the dict it builds
Idle == [call |-> NoCall, at |-> 0, ret |-> NoSnapshot]
NoHistory == [added |-> EmptyMap, removed |-> EmptyMap, reset |-> FALSE, calls |-> 0]

\* the `direction` arguments of _forward_data, and its accounting of a chunk
\* of n bytes (socks5_server.py 364-368, http_server.py 323-327)
ClientWord == Text("client")
ClientToTarget == Text("client->target")
TargetToClient == Text("target->client")
CountTraffic(s, tag, direction, n) ==
    IF Contains(direction, ClientWord) THEN add_traffic(s, tag, n, 0)
    ELSE add_traffic(s, tag, 0, n)

\* writer.get_extra_info('peername') of the modelled connection
ClientAddr == Endpoint(Text("c"), 7)

(***************************************************************************)
(* SOCKS5Server: the handshake handlers.  Each returns what it wrote to    *)
(* the client (writes), its return value (ret), the unread rest of the     *)
(* client buffer (rest), whether the client connection broke under it      *)
(* (lost) and the message it parsed (inp).  `reset` says that the client   *)
(* resets the connection while the handler awaits writer.drain().          *)
(***************************************************************************)
Result(ret, writes, rest, lost, inp) ==
    [ret |-> ret, writes |-> writes, rest |-> rest, lost |-> lost, inp |-> inp]

\* `x in methods` on a bytes object
InBytes(x, b) == \E i \in 1..Len(b) : b[i] = x

\* socks5_server.py 159-183: the method the listener selects
SelectMethodAlwaysNoAuth(user, pass, methods) ==
    IF InBytes(AUTH_NO_AUTH, methods) THEN AUTH_NO_AUTH ELSE AUTH_NO_ACCEPTABLE
SelectMethod(user, pass, methods) ==
    IF Truthy(user) /\ Truthy(pass)
    THEN IF InBytes(AUTH_USERNAME_PASSWORD, methods)
         THEN AUTH_USERNAME_PASSWORD
         ELSE AUTH_NO_ACCEPTABLE
    ELSE IF InBytes(AUTH_NO_AUTH, methods)
         THEN AUTH_NO_AUTH
         ELSE AUTH_NO_ACCEPTABLE

NoGreeting == [read |-> FALSE, version |-> 0, methods |-> << >>]
_handle_handshake(user, pass, buf, eof, lost, reset) ==
    LET hdr == Read(2, buf, eof, lost) IN
    IF hdr.st # "ok" \/ Len(hdr.data) # 2
    THEN Result("False", << >>, hdr.rest, lost, NoGreeting)
    ELSE
    LET version == hdr.data[1]
        nmethods == hdr.data[2]
        m == Read(nmethods, hdr.rest, eof, lost)
    IN
    IF version # SOCKS_VERSION
    THEN Result("False", << >>, hdr.rest, lost, NoGreeting)
    ELSE IF m.st # "ok" \/ Len(m.data) # nmethods
    THEN Result("False", << >>, m.rest, lost, NoGreeting)
    ELSE
    LET sel == SelectMethod(user, pass, m.data)
        inp == [read |-> TRUE, version |-> version, methods |-> m.data]
        w == << Reply(<< SOCKS_VERSION, sel >>) >>
    IN
    IF reset THEN Result("False", w, m.rest, TRUE, inp)
    ELSE IF sel = AUTH_USERNAME_PASSWORD THEN Result("UserPass", w, m.rest, lost, inp)
    ELSE IF sel = AUTH_NO_AUTH THEN Result("True", w, m.rest, lost, inp)
    ELSE Result("False", w, m.rest, lost, inp)

\* socks5_server.py 219-233: the status byte of the authentication reply
\* (raises on bytes that are not UTF-8: status "raise")
CheckCredentials(user, pass, u, p) ==
    IF ~Utf8Decode(u).ok \/ ~Utf8Decode(p).ok THEN "raise"
    ELSE IF /\ ~user.none /\ Utf8Decode(u).s = user.s
            /\ ~pass.none /\ Utf8Decode(p).s = pass.s
         THEN "ok"
         ELSE "fail"

NoAuth == [read |-> FALSE, version |-> 0, uname |-> << >>, passwd |-> << >>]
UserPassAuthSkipped(user, pass, buf, eof, lost, reset) ==
    Result("True", << >>, buf, lost, NoAuth)
_handle_username_password_auth(user, pass, buf, eof, lost, reset) ==
    LET hdr == Read(2, buf, eof, lost) IN
    IF hdr.st # "ok" \/ Len(hdr.data) # 2
    THEN Result("False", << >>, hdr.rest, lost, NoAuth)
    ELSE IF hdr.data[1] # USERPASS_VERSION
    THEN Result("False", << >>, hdr.rest, lost, NoAuth)
    ELSE
    LET u == Read(hdr.data[2], hdr.rest, eof, lost) IN
    IF u.st # "ok" \/ Len(u.data) # hdr.data[2]
    THEN Result("False", << >>, u.rest, lost, NoAuth)
    ELSE
    LET pl == Read(1, u.rest, eof, lost) IN
    IF pl.st # "ok" \/ Len(pl.data) # 1
    THEN Result("False", << >>, pl.rest, lost, NoAuth)
    ELSE
    LET p == Read(pl.data[1], pl.rest, eof, lost) IN
    IF p.st # "ok" \/ Len(p.data) # pl.data[1]
    THEN Result("False", << >>, p.rest, lost, NoAuth)
    ELSE
    LET inp == [read |-> TRUE, version |-> hdr.data[1], uname |-> u.data, passwd |-> p.data]
        chk == CheckCredentials(user, pass, u.data, p.data)
    IN
    IF chk = "raise" THEN Result("False", << >>, p.rest, lost, inp)
    ELSE IF chk = "ok"
    THEN Result(IF reset THEN "False" ELSE "True",
                << Reply(<< 1, 0 >>) >>, p.rest, lost \/ reset, inp)
    ELSE Result("False", << Reply(<< 1, 1 >>) >>, p.rest, lost \/ reset, inp)

\* socks5_server.py 335-350: the reply always carries BND = 0.0.0.0:0
ConnectResponse(rep_code) ==
    Reply(<< SOCKS_VERSION, rep_code, 0, ADDR_IPV4 >> \o << 0, 0, 0, 0 >> \o << 0, 0 >>)

_parse_target_address(addr_type, buf, eof, lost) ==
    LET body ==
            IF addr_type = ADDR_IPV4 THEN
                LET a == Read(4, buf, eof, lost) IN
                IF a.st # "ok" \/ Len(a.data) # 4
                THEN [ok |-> FALSE, host |-> << >>, rest |-> a.rest]
                ELSE [ok |-> TRUE, host |-> inet_ntoa(a.data), rest |-> a.rest]
            ELSE IF addr_type = ADDR_DOMAIN THEN
                LET l == Read(1, buf, eof, lost) IN
                IF l.st # "ok" \/ Len(l.data) # 1
                THEN [ok |-> FALSE, host |-> << >>, rest |-> l.rest]
                ELSE
                LET d == Read(l.data[1], l.rest, eof, lost) IN
                IF d.st # "ok" \/ Len(d.data) # l.data[1] \/ ~Utf8Decode(d.data).ok
                THEN [ok |-> FALSE, host |-> << >>, rest |-> d.rest]
                ELSE [ok |-> TRUE, host |-> Utf8Decode(d.data).s, rest |-> d.rest]
            ELSE IF addr_type = ADDR_IPV6 THEN
                LET a == Read(16, buf, eof, lost) IN
                IF a.st # "ok" \/ Len(a.data) # 16
                THEN [ok |-> FALSE, host |-> << >>, rest |-> a.rest]
                ELSE [ok |-> TRUE, host |-> inet_ntop(a.data), rest |-> a.rest]
            ELSE [ok |-> FALSE, host |-> << >>, rest |-> buf]
    IN
    IF ~body.ok THEN [host |-> None, port |-> 0, rest |-> body.rest]
    ELSE
    LET pt == Read(2, body.rest, eof, lost) IN
    IF pt.st # "ok" \/ Len(pt.data) # 2
    THEN [host |-> None, port |-> 0, rest |-> pt.rest]
    ELSE [host |-> Str(body.host), port |-> UnpackH(pt.data), rest |-> pt.rest]

\* socks5_server.py 249-261: the reply code that rejects a request header and
\* its parsed address, REP_SUCCESS when the request goes on to the dial
RejectCodeNoCmdCheck(version, cmd, host) ==
    IF version # SOCKS_VERSION THEN REP_GENERAL_FAILURE
    ELSE IF ~Truthy(host) THEN REP_ADDRESS_TYPE_NOT_SUPPORTED
    ELSE REP_SUCCESS
RejectCode(version, cmd, host) ==
    IF version # SOCKS_VERSION THEN REP_GENERAL_FAILURE
    ELSE IF cmd # CMD_CONNECT THEN REP_COMMAND_NOT_SUPPORTED
    ELSE IF ~Truthy(host) THEN REP_ADDRESS_TYPE_NOT_SUPPORTED
    ELSE REP_SUCCESS

NoRequest == [read |-> FALSE, version |-> 0, cmd |-> 0, atyp |-> 0,
              host |-> None, port |-> 0]
\* the part of _handle_connect_request before the dial; ret "Dial" when the
\* request is accepted
_handle_connect_request(buf, eof, lost, reset) ==
    LET hdr == Read(4, buf, eof, lost) IN
    IF hdr.st # "ok" \/ Len(hdr.data) # 4
    THEN Result("None", << >>, hdr.rest, lost, NoRequest)
    ELSE
    LET version == hdr.data[1]
        cmd == hdr.data[2]
        atyp == hdr.data[4]
        parse == version = SOCKS_VERSION /\ cmd = CMD_CONNECT
        a == IF parse THEN _parse_target_address(atyp, hdr.rest, eof, lost)
             ELSE [host |-> None, port |-> 0, rest |-> hdr.rest]
        rep == RejectCode(version, cmd, a.host)
        inp == [read |-> TRUE, version |-> version, cmd |-> cmd, atyp |-> atyp,
                host |-> a.host, port |-> a.port]
    IN
    IF rep # REP_SUCCESS
    THEN Result("None", << ConnectResponse(rep) >>, a.rest, lost \/ reset, inp)
    ELSE Result("Dial", << >>, a.rest, lost, inp)

(***************************************************************************)
(* The environment: what the client and the upstream server send.          *)
(***************************************************************************)
MethodBytes == {0, 1, 2}
\* "", "u", "p" and a byte string that is not UTF-8
Names == {<< >>, << 117 >>, << 112 >>, << 255 >>}
\* the k-th payload chunk a peer sends during the relay
Payload(k) == << 64 + k >>

Greeting(version, methods) == << version, Len(methods) >> \o methods
AuthMsg(version, u, p) == << version, Len(u) >> \o u \o << Len(p) >> \o p
Request(version, cmd, atyp, body, port) == << version, cmd, 0, atyp >> \o body \o port

Loopback4 == << 127, 0, 0, 1 >>
Loopback6 == << 0, 0, 0, 0, 0, 0, 0, 0, 0, 0, 0, 0, 0, 0, 0, 1 >>
Port55555 == << 217, 3 >>

S5Greetings ==
    { Greeting(5, m) : m \in SeqsUpTo(MethodBytes, MaxMethods) }
        \cup { Greeting(4, << 0 >>), << 5 >>, << 5, 2, 0 >> }
S5AuthMsgs ==
    { AuthMsg(1, u, p) : u \in Names, p \in Names }
        \cup { AuthMsg(5, << 117 >>, << 112 >>), << 1 >>, << 1, 1 >>, << 1, 1, 117 >>,
               << 1, 1, 117, 1 >> }
S5Requests ==
    { Request(5, c, ADDR_IPV4, Loopback4, Port55555) : c \in {1, 2, 3} }
        \cup { Request(5, c, 9, << >>, << >>) : c \in {1, 2} }
        \cup { Request(5, 1, ADDR_DOMAIN, d, << 0, 80 >>) :
                    d \in { << 1, 97 >>, << 0 >>, << 1, 255 >>, << 2, 97 >> } }
        \cup { Request(5, 1, ADDR_IPV6, Loopback6, << 1, 187 >>),
               Request(4, 1, ADDR_IPV4, Loopback4, Port55555),
               Request(4, 2, ADDR_IPV4, Loopback4, Port55555),
               Request(5, 1, ADDR_IPV4, << 127, 0 >>, << >>),
               Request(5, 1, ADDR_IPV4, Loopback4, << 217 >>),
               << 5, 1, 0 >> }
\* What the client sends while the task stands at `at`: a message of that
\* phase, well-formed or not, a message of a later phase (a client that skips
\* a step), or two messages at once (a client that does not wait for replies).
S5Messages(at) ==
    IF at = "Greet" THEN
        S5Greetings \cup
        { Greeting(5, << 0 >>) \o Request(5, 1, ADDR_IPV4, Loopback4, Port55555),
          Greeting(5, << 2 >>) \o Request(5, 1, ADDR_IPV4, Loopback4, Port55555),
          Greeting(5, << 2 >>) \o AuthMsg(1, << 117 >>, << 112 >>),
          Request(5, 1, ADDR_IPV4, Loopback4, Port55555) }
    ELSE IF at = "UserPass" THEN
        S5AuthMsgs \cup
        { Request(5, 1, ADDR_IPV4, Loopback4, Port55555),
          AuthMsg(1, << 117 >>, << 112 >>)
              \o Request(5, 1, ADDR_IPV4, Loopback4, Port55555) }
    ELSE IF at = "Request" THEN
        S5Requests \cup
        { Request(5, 1, ADDR_IPV4, Loopback4, Port55555) \o << 112, 105 >> }
    ELSE { << 112, 105 >> }

DialOutcomes == {"ok", "refused", "timeout", "unreachable", "gaierror"}

HandshakePcs == {"Greet", "UserPass", "Request", "Dial"}
\* where the task reads, or is about to read, from the client
ReadingPcs == {"Greet", "UserPass", "Request", "Dial", "HttpRequest", "HttpDialConnect", "Relay",
               "SSIv", "SSAddr", "SSDial", "SSRelay"}

ClientSend(msgs) ==
    /\ pc \in DOMAIN msgs \cup {"Relay"}
    /\ client_writer = "open" /\ ~rx_eof /\ ~client_lost
    /\ \/ /\ pc \in DOMAIN msgs
          /\ rx = << >>
          /\ \E m \in msgs[pc] : rx' = m
          /\ sent' = sent
       \/ /\ pc = "Relay"
          /\ sent.client < MaxChunks
          /\ rx' = rx \o Payload(sent.client + 1)
          /\ sent' = [sent EXCEPT !.client = @ + 1]
    /\ UNCHANGED << supervisorVars, now, protocol, stats, lock, threads, history, method, iv_data, req, username, password, pc, rx_eof, client_lost, client_out,
                    client_writer, target, dial, upstream, urx, urx_eof,
                    target_lost, target_out, fwd, connections, last >>

ClientEof ==
    /\ pc \in ReadingPcs
    /\ client_writer = "open" /\ ~rx_eof /\ ~client_lost
    /\ rx_eof' = TRUE
    /\ UNCHANGED << supervisorVars, now, protocol, stats, lock, threads, history, method, iv_data, req, username, password, pc, rx, client_lost, client_out,
                    client_writer, target, dial, upstream, urx, urx_eof,
                    target_lost, target_out, fwd, connections, sent, last >>

ClientReset ==
    /\ pc \notin {"Cleanup", "Closed"}
    /\ client_writer = "open" /\ ~client_lost
    /\ client_lost' = TRUE
    /\ UNCHANGED << supervisorVars, now, protocol, stats, lock, threads, history, method, iv_data, req, username, password, pc, rx, rx_eof, client_out,
                    client_writer, target, dial, upstream, urx, urx_eof,
                    target_lost, target_out, fwd, connections, sent, last >>

TargetSend ==
    /\ pc \notin {"Cleanup", "Closed"}
    /\ upstream = "open" /\ ~urx_eof /\ ~target_lost
    /\ sent.upstream < MaxChunks
    /\ urx' = urx \o Payload(sent.upstream + 1)
    /\ sent' = [sent EXCEPT !.upstream = @ + 1]
    /\ UNCHANGED << supervisorVars, now, protocol, stats, lock, threads, history, method, iv_data, req, username, password, pc, rx, rx_eof, client_lost, client_out,
                    client_writer, target, dial, upstream, urx_eof,
                    target_lost, target_out, fwd, connections, last >>

TargetEof ==
    /\ pc \notin {"Cleanup", "Closed"}
    /\ upstream = "open" /\ ~urx_eof /\ ~target_lost
    /\ urx_eof' = TRUE
    /\ UNCHANGED << supervisorVars, now, protocol, stats, lock, threads, history, method, iv_data, req, username, password, pc, rx, rx_eof, client_lost, client_out,
                    client_writer, target, dial, upstream, urx,
                    target_lost, target_out, fwd, connections, sent, last >>

TargetReset ==
    /\ pc \notin {"Cleanup", "Closed"}
    /\ upstream = "open" /\ ~target_lost
    /\ target_lost' = TRUE
    /\ UNCHANGED << supervisorVars, now, protocol, stats, lock, threads, history, method, iv_data, req, username, password, pc, rx, rx_eof, client_lost, client_out,
                    client_writer, target, dial, upstream, urx, urx_eof,
                    target_out, fwd, connections, sent, last >>

NoTarget == [host |-> << >>, port |-> 0]
NoForward == [method |-> << >>, path |-> << >>, version |-> << >>, request_lines |-> << >>]
ConnectionId == "client"

\* no supervisor: the connection, or the collector, is looked at on its own
SupervisorIdle ==
    /\ config = EmptyMap /\ servers = EmptyMap /\ tasks = EmptyMap
    /\ conns = EmptyMap /\ sup = [pc |-> "none"]

ConnInit ==
    /\ SupervisorIdle
    /\ rx = << >> /\ rx_eof = FALSE /\ client_lost = FALSE
    /\ client_out = << >> /\ client_writer = "open"
    /\ target = NoTarget /\ dial = "none" /\ upstream = "none"
    /\ urx = << >> /\ urx_eof = FALSE /\ target_lost = FALSE
    /\ target_out = << >>
    /\ fwd = [c2t |-> "idle", t2c |-> "idle"]
    /\ sent = [client |-> 0, upstream |-> 0]
    /\ last = [op |-> "none"]
    /\ req = NoForward
    /\ iv_data = << >>
    /\ now = Epoch
    /\ stats = StatsCollector
    /\ lock = Unlocked
    /\ threads = [t \in Threads |-> Idle]
    /\ history = NoHistory

(***************************************************************************)
(* SOCKS5Server._handle_client, one action per step of the task.           *)
(***************************************************************************)
S5Handshake ==
    /\ pc = "Greet"
    /\ \E reset \in BOOLEAN :
      \E r \in { _handle_handshake(username, password, rx, rx_eof, client_lost, reset) } :
        /\ client_out' = client_out \o r.writes
        /\ rx' = r.rest
        /\ client_lost' = r.lost
        /\ pc' = IF r.ret = "UserPass" THEN "UserPass"
                 ELSE IF r.ret = "True" THEN "Request" ELSE "Cleanup"
        /\ last' = [op |-> "handshake", inp |-> r.inp, ret |-> r.ret, writes |-> r.writes]
    /\ UNCHANGED << supervisorVars, now, protocol, stats, lock, threads, history, method, iv_data, req, username, password, rx_eof, client_writer, target, dial,
                    upstream, urx, urx_eof, target_lost, target_out, fwd,
                    connections, sent >>

S5UserPass ==
    /\ pc = "UserPass"
    /\ \E reset \in BOOLEAN :
      \E r \in { _handle_username_password_auth(username, password, rx, rx_eof,
                                                 client_lost, reset) } :
        /\ client_out' = client_out \o r.writes
        /\ rx' = r.rest
        /\ client_lost' = r.lost
        /\ pc' = IF r.ret = "True" THEN "Request" ELSE "Cleanup"
        /\ last' = [op |-> "userpass", inp |-> r.inp, ret |-> r.ret, writes |-> r.writes]
    /\ UNCHANGED << supervisorVars, now, protocol, stats, lock, threads, history, method, iv_data, req, username, password, rx_eof, client_writer, target, dial,
                    upstream, urx, urx_eof, target_lost, target_out, fwd,
                    connections, sent >>

S5ConnectRequest ==
    /\ pc = "Request"
    /\ \E reset \in BOOLEAN :
      \E r \in { _handle_connect_request(rx, rx_eof, client_lost, reset) } :
        /\ client_out' = client_out \o r.writes
        /\ rx' = r.rest
        /\ client_lost' = r.lost
        /\ pc' = IF r.ret = "Dial" THEN "Dial" ELSE "Cleanup"
        /\ target' = IF r.ret = "Dial"
                     THEN [host |-> r.inp.host.s, port |-> r.inp.port]
                     ELSE target
        /\ last' = [op |-> "request", inp |-> r.inp, ret |-> r.ret, writes |-> r.writes]
    /\ UNCHANGED << supervisorVars, now, protocol, stats, lock, threads, history, method, iv_data, req, username, password, rx_eof, client_writer, dial,
                    upstream, urx, urx_eof, target_lost, target_out, fwd,
                    connections, sent >>

\* socks5_server.py 277-280: the reply code sent when the dial raised
DialFailureCodeSuccess(outcome) == REP_SUCCESS
DialFailureCode(outcome) == REP_CONNECTION_REFUSED

\* socks5_server.py 265-280 and 105-120: the dial, the reply, and on success
\* the registration of the connection and the start of the two copy tasks
S5OpenConnection ==
    /\ pc = "Dial"
    /\ \E outcome \in DialOutcomes, reset \in BOOLEAN :
        /\ dial' = outcome
        /\ client_lost' = (client_lost \/ reset)
        /\ IF outcome = "ok"
           THEN /\ upstream' = "open"
                /\ client_out' = Append(client_out, ConnectResponse(REP_SUCCESS))
                /\ connections' = connections \cup {ConnectionId}
                /\ stats' = add_connection(stats, Socks5Tag, ClientAddr, target)
                /\ fwd' = [c2t |-> "run", t2c |-> "run"]
                /\ pc' = "Relay"
           ELSE /\ upstream' = upstream
                /\ client_out' = Append(client_out, ConnectResponse(DialFailureCode(outcome)))
                /\ connections' = connections
                /\ stats' = stats
                /\ fwd' = fwd
                /\ pc' = "Cleanup"
        /\ last' = [op |-> "dial", inp |-> outcome,
                    ret |-> IF outcome = "ok" THEN "Relay" ELSE "None",
                    writes |-> << client_out'[Len(client_out')] >>]
    /\ UNCHANGED << supervisorVars, now, protocol, lock, threads, history, method, iv_data, req, username, password, rx, rx_eof, client_writer, target,
                    urx, urx_eof, target_lost, target_out, sent >>

(***************************************************************************)
(* The relay: the two _forward_data copy tasks run by asyncio.gather.      *)
(* SOCKS5Server._forward_data and HTTPProxyServer._forward_data are the    *)
(* same code.  Closing a writer closes the transport, which feeds EOF to   *)
(* the reader of the same connection.                                      *)
(***************************************************************************)
\* _forward_data(reader, target_writer, "client->target"), one loop turn
ForwardClientToTarget ==
    /\ pc = "Relay" /\ fwd.c2t = "run"
    /\ \E r \in { Read(RELAY_CHUNK, rx, rx_eof \/ client_writer = "closed", client_lost) } :
       IF r.st = "ok" /\ r.data # << >>
       THEN /\ rx' = r.rest
            /\ target_out' = Append(target_out, r.data)
            /\ IF target_lost
               THEN /\ fwd' = [fwd EXCEPT !.c2t = "done"]
                    /\ upstream' = "closed"
                    /\ stats' = stats
               ELSE /\ stats' = CountTraffic(stats, StatsTag(protocol), ClientToTarget,
                                              Len(r.data))
                    /\ UNCHANGED << fwd, upstream >>
       ELSE /\ fwd' = [fwd EXCEPT !.c2t = "done"]
            /\ upstream' = "closed"
            /\ UNCHANGED << rx, target_out, stats >>
    /\ UNCHANGED << supervisorVars, now, protocol, lock, threads, history, method, iv_data, req, username, password, pc, rx_eof, client_lost, client_out,
                    client_writer, target, dial, urx, urx_eof, target_lost,
                    connections, sent, last >>

\* _forward_data(target_reader, writer, "target->client"), one loop turn
ForwardTargetToClient ==
    /\ pc = "Relay" /\ fwd.t2c = "run"
    /\ \E r \in { Read(RELAY_CHUNK, urx, urx_eof \/ upstream = "closed", target_lost) } :
       IF r.st = "ok" /\ r.data # << >>
       THEN /\ urx' = r.rest
            /\ client_out' = Append(client_out, Relayed(r.data))
            /\ IF client_lost
               THEN /\ fwd' = [fwd EXCEPT !.t2c = "done"]
                    /\ client_writer' = "closed"
                    /\ stats' = stats
               ELSE /\ stats' = CountTraffic(stats, StatsTag(protocol), TargetToClient,
                                              Len(r.data))
                    /\ UNCHANGED << fwd, client_writer >>
       ELSE /\ fwd' = [fwd EXCEPT !.t2c = "done"]
            /\ client_writer' = "closed"
            /\ UNCHANGED << urx, client_out, stats >>
    /\ UNCHANGED << supervisorVars, now, protocol, lock, threads, history, method, iv_data, req, username, password, pc, rx, rx_eof, client_lost,
                    target, dial, upstream, urx_eof, target_lost, target_out,
                    connections, sent, last >>

\* asyncio.gather(..., return_exceptions=True) returns when both copy tasks have
RelayOverEither == pc = "Relay" /\ (fwd.c2t = "done" \/ fwd.t2c = "done")
RelayOver == pc = "Relay" /\ fwd.c2t = "done" /\ fwd.t2c = "done"

\* socks5_server.py 124-139: the finally block of _handle_client
S5Cleanup ==
    /\ protocol = "socks5"
    /\ pc = "Cleanup" \/ RelayOver
    /\ client_writer' = "closed"
    /\ rx' = << >>
    /\ connections' = connections \ {ConnectionId}
    /\ stats' = remove_connection(stats, Socks5Tag, ClientAddr)
    /\ pc' = "Closed"
    /\ UNCHANGED << supervisorVars, now, protocol, lock, threads, history, method, iv_data, req, username, password, rx_eof, client_lost, client_out,
                    target, dial, upstream, urx, urx_eof, target_lost,
                    target_out, fwd, sent, last >>

S5Init ==
    /\ username \in {None, Str(<< >>), Str(<< 117 >>)}
    /\ password \in {None, Str(<< >>), Str(<< 112 >>)}
    /\ method = "none"
    /\ protocol = "socks5"
    /\ pc = "Greet"
    /\ connections = {}
    /\ ConnInit

S5Next ==
    \/ ClientSend([at \in HandshakePcs |-> S5Messages(at)])
    \/ ClientEof
    \/ ClientReset
    \/ TargetSend
    \/ TargetEof
    \/ TargetReset
    \/ S5Handshake
    \/ S5UserPass
    \/ S5ConnectRequest
    \/ S5OpenConnection
    \/ ForwardClientToTarget
    \/ ForwardTargetToClient
    \/ S5Cleanup

SpecSocks5 == S5Init /\ [][S5Next]_vars

(***************************************************************************)
(* Claims about the SOCKS5 listener, checked under SpecSocks5.             *)
(***************************************************************************)
AuthConfigured == Truthy(username) /\ Truthy(password)
Closing == pc \in {"Cleanup", "Closed"}
NeverDialled == dial = "none" /\ upstream = "none" /\ fwd = [c2t |-> "idle", t2c |-> "idle"]
\* the handler's reply could not be flushed because the client had reset the
\* connection, and the task is closing
ClientGone == client_lost /\ Closing
SuccessReply == Reply(<< 5, 0, 0, 1, 0, 0, 0, 0, 0, 0 >>)

\* C1: once a version-5 greeting has been read in full, the reply is decided by
\* (auth configured, methods offered): auth configured and 0x02 offered gives
\* 05 02 and the UserPass state; no auth configured and 0x00 offered gives
\* 05 00 and the Request state; every other case gives 05 FF and the
\* connection closes with the Request state never entered.  The next state is
\* reached unless the client resets the connection while the reply is flushed.
C1_GreetReply ==
    (last.op = "handshake" /\ last.inp.read) =>
        LET offered(x) == \E i \in 1..Len(last.inp.methods) : last.inp.methods[i] = x IN
        IF AuthConfigured /\ offered(2)
        THEN /\ last.writes = << Reply(<< 5, 2 >>) >>
             /\ pc = "UserPass" \/ ClientGone
        ELSE IF ~AuthConfigured /\ offered(0)
        THEN /\ last.writes = << Reply(<< 5, 0 >>) >>
             /\ pc = "Request" \/ ClientGone
        ELSE /\ last.writes = << Reply(<< 5, 255 >>) >>
             /\ Closing /\ NeverDialled
             /\ pc = "Closed" => client_writer = "closed"
C1_Witness ==
    /\ last.op = "handshake" /\ last.inp.read
    /\ AuthConfigured /\ last.inp.methods = << 0, 2 >>
    /\ client_out = << Reply(<< 5, 2 >>) >> /\ pc = "UserPass"

\* C2 (as claimed): once a username/password message has been read in full, a
\* pair equal to the configured credentials gives 01 00 and the Request state,
\* and any other pair gives 01 01 and the connection closes with no dial and
\* no relay.
C2_UserPassReply ==
    (last.op = "userpass" /\ last.inp.read) =>
        IF /\ Utf8Decode(last.inp.uname).ok /\ Utf8Decode(last.inp.passwd).ok
           /\ Str(Utf8Decode(last.inp.uname).s) = username
           /\ Str(Utf8Decode(last.inp.passwd).s) = password
        THEN /\ last.writes = << Reply(<< 1, 0 >>) >>
             /\ pc = "Request" \/ ClientGone
        ELSE /\ last.writes = << Reply(<< 1, 1 >>) >>
             /\ Closing /\ NeverDialled

\* C3: once a version-5 request header has been read in full, CMD other than
\* 01 is answered with REP=07, and CMD 01 with an ATYP outside {1, 3, 4} with
\* REP=08; in both cases the connection closes, nothing is dialled and no
\* relay starts.
C3_RequestRejected ==
    (last.op = "request" /\ last.inp.read /\ last.inp.version = 5) =>
        /\ last.inp.cmd # 1 =>
              /\ last.writes = << Reply(<< 5, 7, 0, 1, 0, 0, 0, 0, 0, 0 >>) >>
              /\ Closing /\ NeverDialled
        /\ (last.inp.cmd = 1 /\ last.inp.atyp \notin {1, 3, 4}) =>
              /\ last.writes = << Reply(<< 5, 8, 0, 1, 0, 0, 0, 0, 0, 0 >>) >>
              /\ Closing /\ NeverDialled
C3_Witness ==
    /\ last.op = "request" /\ last.inp.read /\ last.inp.version = 5
    /\ last.inp.cmd = 1 /\ last.inp.atyp = 9
    /\ pc = "Closed" /\ client_writer = "closed"

\* C4: the connection is in the Relay state only with a successful dial behind
\* it and the reply 05 00 00 01 00 00 00 00 00 00 already written; that reply
\* is on the client writer only if the dial succeeded; and every relayed chunk
\* on the client writer comes after it.
C4_RelayAfterDialAndReply ==
    /\ (pc = "Relay" \/ fwd # [c2t |-> "idle", t2c |-> "idle"]) =>
          /\ dial = "ok"
          /\ \E i \in 1..Len(client_out) : client_out[i] = SuccessReply
    /\ (\E i \in 1..Len(client_out) : client_out[i] = SuccessReply) => dial = "ok"
    /\ \A j \in 1..Len(client_out) :
          client_out[j].kind = "relay" =>
              \E i \in 1..(j - 1) : client_out[i] = SuccessReply
C4_Witness ==
    /\ dial = "ok"
    /\ Len(client_out) >= 2
    /\ client_out[Len(client_out) - 1] = SuccessReply
    /\ client_out[Len(client_out)] = Relayed(Payload(1))

\* C5 (as claimed): after a failed dial the reply is REP=05 when the connection
\* was refused and REP=01 for any other failure, and the connection closes
\* without relay.
C5_DialFailureReply ==
    (last.op = "dial" /\ last.inp # "ok") =>
        /\ last.writes =
              << Reply(<< 5, IF last.inp = "refused" THEN 5 ELSE 1, 0, 1, 0, 0, 0, 0, 0, 0 >>) >>
        /\ Closing /\ upstream = "none" /\ fwd = [c2t |-> "idle", t2c |-> "idle"]

(***************************************************************************)
(* HTTPProxyServer.  Text is written as Python writes it: Text("...") is   *)
(* the sequence of code points of an ASCII literal, and a str of ASCII     *)
(* code points encodes to the same bytes.                                  *)
(***************************************************************************)

\* request_data.decode('utf-8', errors='ignore') on bytes that do not form
\* multi-byte characters: the bytes that are not ASCII are dropped
decode_ignore(b) == SelectSeq(b, LAMBDA x : x < 128)

\* http_server.py 130-137, 168, 192, 229, 304: the responses the listener writes
AuthRequiredResponse ==
    Text("HTTP/1.1 407 Proxy Authentication Required") \o CRLF
        \o Text("Proxy-Authenticate: Basic realm=\"Proxy\"") \o CRLF
        \o Text("Content-Length: 0") \o CRLF
        \o CRLF
ConnectionEstablished == Text("HTTP/1.1 200 Connection Established") \o CRLF \o CRLF
BadGateway == Text("HTTP/1.1 502 Bad Gateway") \o CRLF \o CRLF
BadRequest == Text("HTTP/1.1 400 Bad Request") \o CRLF \o CRLF

ProxyAuthorizationPrefix == Text("proxy-authorization:")
BasicPrefix == Text("basic ")
HostPrefix == Text("host:")
HttpScheme == Text("http://")
ConnectMethod == Text("CONNECT")
ConnectionClose == Text("Connection: close")
DroppedHeaders == {Text("proxy-authorization"), Text("proxy-connection")}
ConnectionName == Text("connection")
ConnectionPrefix == Text("connection:")
Colon == Text(":")
Slash == Text("/")
Space == Text(" ")

\* http_server.py 119-127: the credentials of a Basic header against the
\* configured ones; every exception (base64, UTF-8, no ':') gives False
CredentialsOf(decoded, user, pass) ==
    /\ decoded.ok
    /\ Contains(decoded.s, Colon)
    /\ Split1(decoded.s, Colon) = << user.s, pass.s >>
BasicCredentialsMatchUserOnly(auth_header, user, pass) ==
    /\ b64decode(Drop(auth_header, 6)).ok
    /\ Split1(b64decode(Drop(auth_header, 6)).b, Colon)[1] = user.s
BasicCredentialsMatch(auth_header, user, pass) ==
    /\ b64decode(Drop(auth_header, 6)).ok
    /\ CredentialsOf(Utf8Decode(b64decode(Drop(auth_header, 6)).b), user, pass)

\* line.split(':', 1)[1].strip()
HeaderValue(line) == Strip(Split1(line, Colon)[2])

\* http_server.py 113-128: the first Proxy-Authorization line with the Basic
\* scheme decides
RECURSIVE _check_auth(_, _, _)
_check_auth(request_lines, user, pass) ==
    IF request_lines = << >> THEN FALSE
    ELSE IF /\ StartsWith(Lower(Head(request_lines)), ProxyAuthorizationPrefix)
            /\ StartsWith(Lower(HeaderValue(Head(request_lines))), BasicPrefix)
    THEN BasicCredentialsMatch(HeaderValue(Head(request_lines)), user, pass)
    ELSE _check_auth(Tail(request_lines), user, pass)

\* http_server.py 151-156 and 235-240: host[:port]; int() raises ValueError
\* on a port that is not a number (ok = FALSE)
PortOf(host, port) == [ok |-> port.ok, host |-> host, port |-> port.v]
HostPortOf(parts) == PortOf(parts[1], ParseInt(parts[2]))
HostPort(host_port, default_port) ==
    IF Contains(host_port, Colon)
    THEN HostPortOf(Split1(host_port, Colon))
    ELSE [ok |-> TRUE, host |-> host_port, port |-> default_port]

CONNECT_DEFAULT_PORT == 443
HTTP_DEFAULT_PORT == 80
REQUEST_MAX == 4096

\* What _handle_client has done with a request when it reaches the dial or
\* returns: ret is "return" (nothing written), "auth_required",
\* "bad_request", "connect" or "forward".
Handled(ret, writes, tgt, request) ==
    [ret |-> ret, writes |-> writes, target |-> tgt, req |-> request]
Returned == Handled("return", << >>, NoTarget, NoForward)
ToDial(ret, t, request) ==
    IF t.ok THEN Handled(ret, << >>, [host |-> t.host, port |-> t.port], request)
    ELSE Returned

\* http_server.py 146-156: the target of a CONNECT request line
ConnectTarget(parts, default_port) ==
    IF Len(parts) < 2 THEN [ok |-> FALSE, host |-> << >>, port |-> 0]
    ELSE HostPort(parts[2], default_port)
HTTP_handle_connect_request(first_line) ==
    ToDial("connect", ConnectTarget(SplitWs(first_line), CONNECT_DEFAULT_PORT), NoForward)

\* http_server.py 223-226: the value of the first Host line, None without one
HostHeaderCaseSensitive(lines) ==
    IF \E i \in 1..Len(lines) : StartsWith(lines[i], Text("Host:"))
    THEN Str(HeaderValue(lines[CHOOSE i \in 1..Len(lines) :
                                  /\ StartsWith(lines[i], Text("Host:"))
                                  /\ \A j \in 1..(i - 1) : ~StartsWith(lines[j], Text("Host:"))]))
    ELSE None
RECURSIVE HostHeader(_)
HostHeader(lines) ==
    IF lines = << >> THEN None
    ELSE IF StartsWith(Lower(Head(lines)), HostPrefix) THEN Str(HeaderValue(Head(lines)))
    ELSE HostHeader(Tail(lines))

\* http_server.py 211-226: host_port and path of the request URL
AbsoluteUrl(rest) ==
    IF Contains(rest, Slash)
    THEN [host_port |-> Str(Split1(rest, Slash)[1]), path |-> Slash \o Split1(rest, Slash)[2]]
    ELSE [host_port |-> Str(rest), path |-> Slash]
UrlTarget(url, request_lines) ==
    IF StartsWith(url, HttpScheme) THEN AbsoluteUrl(Drop(url, 7))
    ELSE [host_port |-> HostHeader(Tail(request_lines)), path |-> url]

\* http_server.py 228-240
ForwardTo(parts, u, request_lines, default_port) ==
    IF ~StartsWith(parts[2], HttpScheme) /\ ~Truthy(u.host_port)
    THEN Handled("bad_request", << Reply(BadRequest) >>, NoTarget, NoForward)
    ELSE ToDial("forward", HostPort(u.host_port.s, default_port),
                [method |-> parts[1], path |-> u.path, version |-> parts[3],
                 request_lines |-> request_lines])
\* http_server.py 207-208: `method, url, version = first_line.split()` raises
\* ValueError unless the line has three parts
ForwardParsed(parts, request_lines) ==
    IF Len(parts) # 3 THEN Returned
    ELSE ForwardTo(parts, UrlTarget(parts[2], request_lines), request_lines,
                   HTTP_DEFAULT_PORT)
RequestLinesOf(request_data) == Split(decode_ignore(request_data), CRLF)
HTTP_handle_http_request(request_data) ==
    ForwardParsed(SplitWs(RequestLinesOf(request_data)[1]), RequestLinesOf(request_data))

\* http_server.py 63-90
Dispatch(user, pass, request_data, request_lines) ==
    IF request_lines[1] = << >> THEN Returned
    ELSE IF Truthy(user) /\ Truthy(pass) /\ ~_check_auth(request_lines, user, pass)
    THEN Handled("auth_required", << Reply(AuthRequiredResponse) >>, NoTarget, NoForward)
    ELSE IF StartsWith(request_lines[1], ConnectMethod)
    THEN HTTP_handle_connect_request(request_lines[1])
    ELSE HTTP_handle_http_request(request_data)
HTTP_handle_client(user, pass, request_data) ==
    IF request_data = << >> THEN Returned
    ELSE Dispatch(user, pass, request_data, RequestLinesOf(request_data))

\* http_server.py 251-269: the request sent upstream
HeaderName(line) == Lower(Split1(line, Colon)[1])
KeepHeader(line) ==
    /\ Strip(line) # << >>
    /\ HeaderName(line) \notin DroppedHeaders
ForwardedHeader(line) ==
    IF HeaderName(line) = ConnectionName THEN ConnectionClose ELSE line
ForwardedHeaders(kept) == [i \in 1..Len(kept) |-> ForwardedHeader(kept[i])]
RequestLine(r) == r.method \o Space \o r.path \o Space \o r.version
EnsureConnectionClose(lines) ==
    IF \E i \in 1..Len(lines) : Contains(Lower(lines[i]), ConnectionPrefix)
    THEN lines
    ELSE Append(lines, ConnectionClose)
RewriteRequest(r) ==
    Join(Append(EnsureConnectionClose(
                    << RequestLine(r) >>
                        \o ForwardedHeaders(SelectSeq(Tail(r.request_lines), KeepHeader))),
                << >>),
         CRLF) \o CRLF

(***************************************************************************)
(* The requests an HTTP client sends: a request line, up to MaxHeaders     *)
(* header lines and the blank line.                                        *)
(***************************************************************************)
MaxHeaders == 2
RequestLineMenu ==
    { Text("GET http://h:8080/ping HTTP/1.1"),
      Text("GET http://h HTTP/1.1"),
      Text("GET /ping HTTP/1.1"),
      Text("GET /connection:x HTTP/1.1"),
      Text("CONNECT h:8443 HTTP/1.1"),
      Text("CONNECT h HTTP/1.1"),
      Text("CONNECT h:x HTTP/1.1"),
      Text("CONNECT"),
      Text("GET"),
      << >> }
\* dTpw is base64 of "u:p", dTpx of "u:q" and dQ== of "u"
HeaderMenu ==
    { Text("Host: h"),
      Text("host: h:8080"),
      Text("Proxy-Authorization: Basic dTpw"),
      Text("proxy-authorization: basic dTpw"),
      Text("Proxy-Authorization: Basic dQ=="),
      Text("Proxy-Authorization: Basic dTpx"),
      Text("Proxy-Connection: keep-alive"),
      Text("Connection: keep-alive"),
      Text("X-Connection: 1") }
HttpDialOutcomes == {"ok", "refused", "timeout"}
HttpRequestText(first_line, headers) ==
    Join(<< first_line >> \o headers \o << << >>, << >> >>, CRLF)
HttpRequests ==
    { HttpRequestText(l, h) : l \in RequestLineMenu, h \in SeqsUpTo(HeaderMenu, MaxHeaders) }

(***************************************************************************)
(* HTTPProxyServer._handle_client, one action per step of the task.        *)
(***************************************************************************)
\* http_server.py 61-90: read the request, check it, find its target
HttpHandleClient ==
    /\ pc = "HttpRequest"
    /\ \E reset \in BOOLEAN, r \in { Read(REQUEST_MAX, rx, rx_eof, client_lost) } :
       \E h \in { IF r.st = "ok" THEN HTTP_handle_client(username, password, r.data)
                  ELSE Returned } :
        /\ rx' = r.rest
        /\ client_out' = client_out \o h.writes
        /\ client_lost' = (client_lost \/ (reset /\ h.writes # << >>))
        /\ pc' = IF h.ret = "connect" THEN "HttpDialConnect"
                 ELSE IF h.ret = "forward" THEN "HttpDialForward"
                 ELSE "Cleanup"
        /\ target' = h.target
        /\ req' = h.req
        /\ last' = [op |-> "http", inp |-> r.data, ret |-> h.ret, writes |-> h.writes,
                    reset |-> reset /\ h.writes # << >>]
    /\ UNCHANGED << supervisorVars, now, protocol, stats, lock, threads, history, method, iv_data, username, password, rx_eof, client_writer, dial, upstream, urx,
                    urx_eof, target_lost, target_out, fwd, connections, sent >>

\* http_server.py 160-194: the dial of a CONNECT request and its reply; a
\* drain() that raises after the 200 was written lands in the same except
\* clause as a failed dial
TunnelReplyAlwaysEstablished(outcome) == ConnectionEstablished
TunnelReply(outcome) == IF outcome = "ok" THEN ConnectionEstablished ELSE BadGateway
HttpOpenTunnel ==
    /\ pc = "HttpDialConnect"
    /\ \E outcome \in HttpDialOutcomes, reset \in BOOLEAN :
        /\ dial' = outcome
        /\ client_lost' = (client_lost \/ reset)
        /\ upstream' = IF outcome = "ok" THEN "open" ELSE upstream
        /\ IF outcome = "ok" /\ ~client_lost'
           THEN /\ client_out' = Append(client_out, Reply(TunnelReply(outcome)))
                /\ connections' = connections \cup {ConnectionId}
                /\ stats' = add_connection(stats, HttpTag, ClientAddr, target)
                /\ fwd' = [c2t |-> "run", t2c |-> "run"]
                /\ pc' = "Relay"
           ELSE /\ client_out' =
                    IF outcome = "ok"
                    THEN client_out \o << Reply(TunnelReply(outcome)), Reply(BadGateway) >>
                    ELSE Append(client_out, Reply(TunnelReply(outcome)))
                /\ connections' = connections
                /\ stats' = stats
                /\ fwd' = fwd
                /\ pc' = "Cleanup"
        /\ last' = [op |-> "tunnel", inp |-> outcome,
                    ret |-> IF pc' = "Relay" THEN "Relay" ELSE "None",
                    writes |-> SubSeq(client_out', Len(client_out) + 1, Len(client_out')),
                    reset |-> client_lost']
    /\ UNCHANGED << supervisorVars, now, protocol, lock, threads, history, method, iv_data, username, password, rx, rx_eof, client_writer, target, urx,
                    urx_eof, target_lost, target_out, sent, req >>

\* http_server.py 244-284 and 302-306: the dial of a forwarded request; the
\* rewritten request goes upstream, a failed dial is answered 502
HttpForwardRequest ==
    /\ pc = "HttpDialForward"
    /\ \E outcome \in HttpDialOutcomes, reset \in BOOLEAN :
        /\ dial' = outcome
        /\ IF outcome = "ok"
           THEN /\ upstream' = "open"
                /\ target_out' = Append(target_out, RewriteRequest(req))
                /\ connections' = connections \cup {ConnectionId}
                /\ stats' = add_connection(stats, HttpTag, ClientAddr, target)
                /\ pc' = "HttpResponse"
                /\ UNCHANGED << client_out, client_lost >>
           ELSE /\ client_out' = Append(client_out, Reply(BadGateway))
                /\ client_lost' = (client_lost \/ reset)
                /\ pc' = "Cleanup"
                /\ UNCHANGED << upstream, target_out, connections, stats >>
        /\ last' = [op |-> "forward", inp |-> outcome,
                    ret |-> IF outcome = "ok" THEN "Response" ELSE "None",
                    writes |-> SubSeq(client_out', Len(client_out) + 1, Len(client_out')),
                    reset |-> client_lost']
    /\ UNCHANGED << supervisorVars, now, protocol, lock, threads, history, method, iv_data, username, password, rx, rx_eof, client_writer, target, urx,
                    urx_eof, target_lost, fwd, sent, req >>

\* http_server.py 286-306: one turn of the loop that copies the response; a
\* read that times out or raises, and a drain() that raises, land in the
\* except clause that writes 502; target_writer is closed on EOF only
HttpPipeResponse ==
    /\ pc = "HttpResponse"
    /\ \E r \in { Read(RELAY_CHUNK, urx, urx_eof, target_lost) } :
        /\ urx' = r.rest
        /\ IF r.st = "ok" /\ r.data # << >>
           THEN /\ client_out' = IF client_lost
                                 THEN client_out \o << Relayed(r.data), Reply(BadGateway) >>
                                 ELSE Append(client_out, Relayed(r.data))
                /\ stats' = IF client_lost THEN stats
                             ELSE add_traffic(stats, HttpTag, 0, Len(r.data))
                /\ pc' = IF client_lost THEN "Cleanup" ELSE pc
                /\ upstream' = upstream
           ELSE IF r.st = "ok"
           THEN /\ upstream' = "closed"
                /\ pc' = "Cleanup"
                /\ UNCHANGED << client_out, stats >>
           ELSE /\ client_out' = Append(client_out, Reply(BadGateway))
                /\ pc' = "Cleanup"
                /\ UNCHANGED << upstream, stats >>
    /\ UNCHANGED << supervisorVars, now, protocol, lock, threads, history, method, iv_data, username, password, rx, rx_eof, client_lost, client_writer,
                    target, dial, urx_eof, target_lost, target_out, fwd,
                    connections, sent, last, req >>

\* http_server.py 96-111: the finally block of _handle_client
HttpCleanup ==
    /\ protocol = "http"
    /\ pc = "Cleanup" \/ RelayOver
    /\ client_writer' = "closed"
    /\ rx' = << >>
    /\ connections' = connections \ {ConnectionId}
    /\ stats' = remove_connection(stats, HttpTag, ClientAddr)
    /\ pc' = "Closed"
    /\ UNCHANGED << supervisorVars, now, protocol, lock, threads, history, method, iv_data, username, password, rx_eof, client_lost, client_out,
                    target, dial, upstream, urx, urx_eof, target_lost,
                    target_out, fwd, sent, last, req >>

HttpInit ==
    /\ username \in {None, Str(Text("u"))}
    /\ password \in {None, Str(Text("p"))}
    /\ username.none => password.none
    /\ method = "none"
    /\ protocol = "http"
    /\ pc = "HttpRequest"
    /\ connections = {}
    /\ ConnInit

HttpNext ==
    \/ ClientSend([at \in {"HttpRequest"} |-> HttpRequests])
    \/ ClientEof
    \/ ClientReset
    \/ TargetSend
    \/ TargetEof
    \/ TargetReset
    \/ HttpHandleClient
    \/ HttpOpenTunnel
    \/ HttpForwardRequest
    \/ HttpPipeResponse
    \/ ForwardClientToTarget
    \/ ForwardTargetToClient
    \/ HttpCleanup

SpecHttp == HttpInit /\ [][HttpNext]_vars

(***************************************************************************)
(* Claims about the HTTP proxy listener, checked under SpecHttp.  The      *)
(* request the task read is last.inp; its lines and the parts of its       *)
(* request line are taken from the text here, not from the handler.        *)
(***************************************************************************)
ReadLines == Split(last.inp, CRLF)
ReadParts == SplitWs(ReadLines[1])
Status407 == Text("HTTP/1.1 407 Proxy Authentication Required")
ProxyAuthenticate == Text("Proxy-Authenticate: Basic realm=\"Proxy\"")
Status200 == Text("HTTP/1.1 200 Connection Established")
Status502 == Text("HTTP/1.1 502 Bad Gateway")
Status400 == Text("HTTP/1.1 400 Bad Request")
ConnectLine == Text("CONNECT h:8443 HTTP/1.1")
WrongCredentials == Text("Proxy-Authorization: Basic dTpx")
GetPing == Text("GET /ping HTTP/1.1")
HostH == Text("Host: h")
NameH == Text("h")
RelayIdle == fwd = [c2t |-> "idle", t2c |-> "idle"]
\* the target named by host[:port], with the port that applies when none is given
NamedTarget(host_port, default_port) ==
    IF Contains(host_port, Colon)
    THEN [host |-> Split1(host_port, Colon)[1],
          port |-> ParseInt(Split1(host_port, Colon)[2]).v]
    ELSE [host |-> host_port, port |-> default_port]
WellFormedTarget(host_port) ==
    Contains(host_port, Colon) => ParseInt(Split1(host_port, Colon)[2]).ok

\* a header line "Proxy-Authorization: Basic <b64>", the name in any case,
\* whose <b64> decodes to exactly username:password
CarriesCredentials(line) ==
    /\ StartsWith(Lower(line), ProxyAuthorizationPrefix)
    /\ StartsWith(Lower(Strip(Drop(line, 20))), BasicPrefix)
    /\ b64decode(Drop(Strip(Drop(line, 20)), 6)).ok
    /\ b64decode(Drop(Strip(Drop(line, 20)), 6)).b = username.s \o Colon \o password.s

\* C6: with credentials configured, a request (CONNECT or not) none of whose
\* lines is a Proxy-Authorization Basic header that decodes to exactly the
\* configured user:pass is answered 407 Proxy Authentication Required with
\* Proxy-Authenticate: Basic realm="Proxy"; the task then closes the
\* connection and has dialled nothing.
C6_AuthRequired ==
    (/\ last.op = "http" /\ ReadLines[1] # << >> /\ AuthConfigured
     /\ ~\E i \in 1..Len(ReadLines) : CarriesCredentials(ReadLines[i])) =>
        /\ Len(last.writes) = 1
        /\ last.writes[1].kind = "reply"
        /\ Split(last.writes[1].data, CRLF)[1] = Status407
        /\ \E i \in 1..Len(Split(last.writes[1].data, CRLF)) :
              Split(last.writes[1].data, CRLF)[i] = ProxyAuthenticate
        /\ Closing /\ NeverDialled /\ target_out = << >>
        /\ pc = "Closed" => client_writer = "closed"
C6_Witness ==
    /\ last.op = "http" /\ AuthConfigured
    /\ ReadLines = << ConnectLine, WrongCredentials, << >>, << >> >>
    /\ client_out = << Reply(AuthRequiredResponse) >>
    /\ pc = "Closed" /\ client_writer = "closed" /\ dial = "none"

\* C7: a CONNECT host[:port] request that passes the credentials check is
\* dialled at the given port, or at 443 when the request names none; a dial
\* that succeeds is answered with exactly the line HTTP/1.1 200 Connection
\* Established and a blank line and the relay starts (unless the client has
\* reset the connection by then); a dial that fails is answered HTTP/1.1 502
\* Bad Gateway and no relay starts; and the relay runs only behind that 200.
C7_ConnectTunnel ==
    /\ (/\ last.op = "http" /\ last.ret # "auth_required"
        /\ Len(ReadParts) >= 2 /\ ReadParts[1] = ConnectMethod
        /\ WellFormedTarget(ReadParts[2])) =>
            /\ last.ret = "connect"
            /\ target = NamedTarget(ReadParts[2], 443)
            /\ pc = "HttpDialConnect" => dial = "none"
    /\ (last.op = "tunnel" /\ last.inp = "ok" /\ ~last.reset) =>
            /\ last.writes = << Reply(Status200 \o CRLF \o CRLF) >>
            /\ ~RelayIdle /\ upstream # "none"
    /\ (last.op = "tunnel" /\ last.inp # "ok") =>
            /\ last.writes = << Reply(Status502 \o CRLF \o CRLF) >>
            /\ Closing /\ RelayIdle /\ upstream = "none"
    /\ ~RelayIdle =>
            /\ dial = "ok"
            /\ client_out[1] = Reply(Status200 \o CRLF \o CRLF)
            /\ \A i \in 2..Len(client_out) : client_out[i].kind = "relay"
C7_Witness ==
    /\ last.op = "tunnel" /\ dial = "ok"
    /\ target = [host |-> NameH, port |-> 443]
    /\ client_out = << Reply(ConnectionEstablished), Relayed(Payload(1)) >>
    /\ target_out = << Payload(1) >>

\* C8 (as claimed): the request written upstream for a non-CONNECT request
\* is the line METHOD path HTTP-VERSION, then every original header line but
\* Proxy-Authorization and Proxy-Connection (a Connection header is
\* rewritten), it contains a line Connection: close, and it ends with a
\* blank line.
C8_UpstreamRequest ==
    (last.op = "forward" /\ last.inp = "ok") =>
        LET out == Split(target_out[1], CRLF)
            orig == req.request_lines
            name(line) == Lower(Split1(line, Colon)[1])
        IN  /\ out[1] = req.method \o Space \o req.path \o Space \o req.version
            /\ \A i \in 2..Len(orig) :
                  (/\ orig[i] # << >>
                   /\ name(orig[i]) \notin DroppedHeaders \cup {ConnectionName})
                      => \E j \in 2..Len(out) : out[j] = orig[i]
            /\ \A j \in 2..Len(out) :
                  name(out[j]) \notin DroppedHeaders
            /\ \E j \in 2..Len(out) : out[j] = ConnectionClose
            /\ Len(out) >= 3 /\ out[Len(out) - 1] = << >> /\ out[Len(out)] = << >>

\* C9: a non-CONNECT request with a URI that is not absolute, past the
\* credentials check, is dialled at the host[:port] of its first Host header
\* line, with port 80 when the header names none; without a Host header line
\* it is answered HTTP/1.1 400 Bad Request, nothing is dialled and the
\* connection closes.
C9_HostHeaderTarget ==
    (/\ last.op = "http" /\ last.ret # "auth_required"
     /\ Len(ReadParts) = 3
     /\ ~StartsWith(ReadLines[1], ConnectMethod)
     /\ ~StartsWith(ReadParts[2], HttpScheme)) =>
        LET hosts == { i \in 2..Len(ReadLines) :
                          StartsWith(Lower(ReadLines[i]), HostPrefix) }
            first == CHOOSE i \in hosts : \A j \in hosts : i <= j
            value == Strip(Drop(ReadLines[first], 5))
        IN  IF hosts = {}
            THEN /\ Len(last.writes) = 1
                 /\ last.writes[1] = Reply(Status400 \o CRLF \o CRLF)
                 /\ Closing /\ NeverDialled /\ target_out = << >>
            ELSE (value # << >> /\ WellFormedTarget(value)) =>
                 /\ last.ret = "forward"
                 /\ target = NamedTarget(value, 80)
C9_Witness ==
    /\ last.op = "forward" /\ dial = "ok"
    /\ req.request_lines = << GetPing, HostH, << >>, << >> >>
    /\ target = [host |-> NameH, port |-> 80]
    /\ target_out = << GetPing \o CRLF \o HostH \o CRLF \o ConnectionClose \o CRLF \o CRLF >>

(***************************************************************************)
(* ShadowsocksCrypto and ShadowsocksConnection.  AES and MD5 are replaced  *)
(* by byte-wise stand-ins with the call structure of the source: the key   *)
(* is a digest of the password, every encrypt and decrypt call starts a    *)
(* fresh cipher from the key and the IV, a stream method turns n bytes     *)
(* into n bytes, and an AEAD method appends a tag that decrypt verifies.   *)
(***************************************************************************)
IV_LEN == 16
ADDR_READ == 1024

\* shadowsocks_server.py 28-39: (key_len, iv_len, crypto_type) of each method
MethodInfo(klen, ivlen, type) == [key_len |-> klen, iv_len |-> ivlen, crypto_type |-> type]
SUPPORTED_METHODS ==
    ("aes-128-gcm" :> MethodInfo(16, 16, "aead"))
        @@ ("aes-192-gcm" :> MethodInfo(24, 16, "aead"))
        @@ ("aes-256-gcm" :> MethodInfo(32, 16, "aead"))
        @@ ("chacha20-ietf-poly1305" :> MethodInfo(32, 32, "aead"))
        @@ ("aes-128-cfb" :> MethodInfo(16, 16, "stream"))
        @@ ("aes-192-cfb" :> MethodInfo(24, 16, "stream"))
        @@ ("aes-256-cfb" :> MethodInfo(32, 16, "stream"))
        @@ ("aes-128-ctr" :> MethodInfo(16, 16, "stream"))
        @@ ("aes-192-ctr" :> MethodInfo(24, 16, "stream"))
        @@ ("aes-256-ctr" :> MethodInfo(32, 16, "stream"))
MethodText == [m \in DOMAIN SUPPORTED_METHODS |-> Text(m)]
AesWord == Text("aes")
Chacha20Word == Text("chacha20")
CfbWord == Text("cfb")
CtrWord == Text("ctr")

RECURSIVE SumSeq(_)
SumSeq(b) == IF b = << >> THEN 0 ELSE Head(b) + SumSeq(Tail(b))
\* shadowsocks_server.py 52-64: key_len bytes of the MD5 chain over the password
_derive_key(m, pass) ==
    (31 * SumSeq(pass) + Len(pass) + SUPPORTED_METHODS[m].key_len) % 256
\* SUPPORTED_METHODS[method][2]
crypto_type(m) == SUPPORTED_METHODS[m].crypto_type

\* The primitives of the cryptography package.  A primitive takes the key
\* and nonce sizes its documentation names and raises on any other; two
\* primitives, two keys or two nonces give different key streams and tags.
LibraryAccepts(prim, klen, nlen) ==
    IF prim = "AESGCM" THEN klen \in {16, 24, 32} /\ nlen \in 8..128
    ELSE IF prim = "ChaCha20Poly1305" THEN klen = 32 /\ nlen = 12
    ELSE IF prim \in {"CFB", "CTR"} THEN klen \in {16, 24, 32} /\ nlen = 16
    ELSE FALSE
Salt(prim) ==
    IF prim = "AESGCM" THEN 1 ELSE IF prim = "ChaCha20Poly1305" THEN 2
    ELSE IF prim = "CFB" THEN 3 ELSE 4
KeyStream(prim, key, iv, i) ==
    (key + iv[((i - 1) % Len(iv)) + 1] + i + Salt(prim)) % 256
Tag(prim, key, iv, plaintext) ==
    (key + iv[Len(iv)] + SumSeq(plaintext) + Len(plaintext) + Salt(prim)) % 256
Xor(prim, key, iv, data, sign) ==
    [i \in 1..Len(data) |-> (data[i] + 256 + sign * KeyStream(prim, key, iv, i)) % 256]

\* what encrypt returns: (ciphertext, iv), or the exception it raised
Encrypted(ok, ct, iv) == [ok |-> ok, ct |-> ct, iv |-> iv]
\* the mode chosen at 118-123 to encrypt, and at 134-139 to decrypt
EncryptMode(m) ==
    IF Contains(MethodText[m], CfbWord) THEN "CFB"
    ELSE IF Contains(MethodText[m], CtrWord) THEN "CTR" ELSE "unsupported"
DecryptModeAlwaysCfb(m) == "CFB"
DecryptMode(m) ==
    IF Contains(MethodText[m], CfbWord) THEN "CFB"
    ELSE IF Contains(MethodText[m], CtrWord) THEN "CTR" ELSE "unsupported"
\* the AEAD chosen at 91-96 to seal, and at 106-110 to open
SealCipher(m) ==
    IF Contains(MethodText[m], AesWord) THEN "AESGCM"
    ELSE IF Contains(MethodText[m], Chacha20Word) THEN "ChaCha20Poly1305"
    ELSE "unsupported"
OpenCipher(m) ==
    IF Contains(MethodText[m], AesWord) THEN "AESGCM"
    ELSE IF Contains(MethodText[m], Chacha20Word) THEN "ChaCha20Poly1305"
    ELSE "unsupported"
\* 98 and 111: `iv[:12] if len(iv) >= 12 else iv + b'\x00' * (12 - len(iv))`
Nonce12(iv) ==
    IF Len(iv) >= 12 THEN SubSeq(iv, 1, 12)
    ELSE iv \o [i \in 1..(12 - Len(iv)) |-> 0]
Nonce(prim, iv) == IF prim = "ChaCha20Poly1305" THEN Nonce12(iv) ELSE iv

\* shadowsocks_server.py 116-144
_encrypt_stream(m, key, plaintext, iv) ==
    IF ~LibraryAccepts(EncryptMode(m), SUPPORTED_METHODS[m].key_len, Len(iv))
    THEN Encrypted(FALSE, << >>, iv)
    ELSE Encrypted(TRUE, Xor(EncryptMode(m), key, iv, plaintext, 1), iv)
_decrypt_stream(m, key, ciphertext, iv) ==
    IF ~LibraryAccepts(DecryptMode(m), SUPPORTED_METHODS[m].key_len, Len(iv))
    THEN [ok |-> FALSE, pt |-> << >>]
    ELSE [ok |-> TRUE, pt |-> Xor(DecryptMode(m), key, iv, ciphertext, -1)]
\* shadowsocks_server.py 89-114: decrypt raises (ok = FALSE) on a wrong tag
Sealed(prim, key, nonce, plaintext) ==
    Append(Xor(prim, key, nonce, plaintext, 1), Tag(prim, key, nonce, plaintext))
_encrypt_aead(m, key, plaintext, iv) ==
    IF ~LibraryAccepts(SealCipher(m), SUPPORTED_METHODS[m].key_len,
                       Len(Nonce(SealCipher(m), iv)))
    THEN Encrypted(FALSE, << >>, iv)
    ELSE Encrypted(TRUE, Sealed(SealCipher(m), key, Nonce(SealCipher(m), iv), plaintext), iv)
Opened(prim, key, nonce, plaintext, tag) ==
    [ok |-> tag = Tag(prim, key, nonce, plaintext), pt |-> plaintext]
_decrypt_aead(m, key, ciphertext, iv) ==
    IF ciphertext = << >> THEN [ok |-> FALSE, pt |-> << >>]
    ELSE IF ~LibraryAccepts(OpenCipher(m), SUPPORTED_METHODS[m].key_len,
                            Len(Nonce(OpenCipher(m), iv)))
    THEN [ok |-> FALSE, pt |-> << >>]
    ELSE Opened(OpenCipher(m), key, Nonce(OpenCipher(m), iv),
                Xor(OpenCipher(m), key, Nonce(OpenCipher(m), iv),
                    SubSeq(ciphertext, 1, Len(ciphertext) - 1), -1),
                ciphertext[Len(ciphertext)])
\* shadowsocks_server.py 66-87
encrypt(m, key, plaintext, iv) ==
    IF crypto_type(m) = "aead" THEN _encrypt_aead(m, key, plaintext, iv)
    ELSE _encrypt_stream(m, key, plaintext, iv)
decrypt(m, key, ciphertext, iv) ==
    IF crypto_type(m) = "aead" THEN _decrypt_aead(m, key, ciphertext, iv)
    ELSE _decrypt_stream(m, key, ciphertext, iv)

\* shadowsocks_server.py 225-251: (host, port) of the address at the head of
\* the decrypted data; ok = FALSE where the source raises.  Whatever follows
\* the address in `data` is not returned.
ParsedAddress(ok, host, port) == [ok |-> ok, host |-> host, port |-> port]
BadAddress == ParsedAddress(FALSE, << >>, 0)
DomainAddressUnchecked(data, domain_len) ==
    ParsedAddress(TRUE, SubSeq(data, 3, Min(2 + domain_len, Len(data))), 0)
DomainAddress(data, domain_len) ==
    IF Len(data) < 4 + domain_len THEN BadAddress
    ELSE IF ~Utf8Decode(SubSeq(data, 3, 2 + domain_len)).ok THEN BadAddress
    ELSE ParsedAddress(TRUE, Utf8Decode(SubSeq(data, 3, 2 + domain_len)).s,
                       UnpackH(SubSeq(data, 3 + domain_len, 4 + domain_len)))
ParseAddressAnyTag(data) ==
    IF Len(data) < 7 THEN BadAddress
    ELSE ParsedAddress(TRUE, inet_ntoa(SubSeq(data, 2, 5)), UnpackH(SubSeq(data, 6, 7)))
_parse_address(data) ==
    IF Len(data) < 7 THEN BadAddress
    ELSE IF data[1] = 1
    THEN ParsedAddress(TRUE, inet_ntoa(SubSeq(data, 2, 5)), UnpackH(SubSeq(data, 6, 7)))
    ELSE IF data[1] = 3 THEN DomainAddress(data, data[2])
    ELSE IF data[1] = 4
    THEN IF Len(data) < 19 THEN BadAddress
         ELSE ParsedAddress(TRUE, inet_ntop(SubSeq(data, 2, 17)),
                            UnpackH(SubSeq(data, 18, 19)))
    ELSE BadAddress

(***************************************************************************)
(* What a Shadowsocks client sends: the IV, then the sealed address with   *)
(* or without payload behind it, then one sealed payload chunk at a time,  *)
(* every chunk sealed from the same IV as the listener expects.            *)
(***************************************************************************)
ClientIv == [i \in 1..IV_LEN |-> i]
\* the key of the modelled listeners, whose methods have 32-byte keys
ClientKey == _derive_key("aes-256-gcm", Text("p"))
WrongKey == _derive_key("aes-256-gcm", Text("q"))
AddressMenu ==
    { << 1 >> \o Loopback4 \o Port55555,
      << 3, 1, 97, 0, 80 >>,
      << 3, 3, 97, 98, 99, 0, 80 >>,
      << 4 >> \o Loopback6 \o << 1, 187 >>,
      << 9, 0, 0, 0, 0, 0, 0 >> }
\* nothing, or "hi"
ResidualMenu == { << >>, << 104, 105 >> }
SSBlobs(m) ==
    { encrypt(m, ClientKey, a \o r, ClientIv).ct : a \in AddressMenu, r \in ResidualMenu }
        \cup { encrypt(m, WrongKey, << 1 >> \o Loopback4 \o Port55555, ClientIv).ct }
SSMessages(at, m) ==
    IF at = "SSIv"
    THEN { ClientIv \o b : b \in SSBlobs(m) }
            \cup { ClientIv, SubSeq(ClientIv, 1, IV_LEN - 1) }
    ELSE SSBlobs(m)

SSClientSend ==
    /\ pc \in {"SSIv", "SSAddr", "SSRelay"}
    /\ client_writer = "open" /\ ~rx_eof /\ ~client_lost
    /\ \/ /\ pc \in {"SSIv", "SSAddr"}
          /\ rx = << >>
          /\ \E m \in SSMessages(pc, method) : rx' = m
          /\ sent' = sent
       \/ /\ pc = "SSRelay"
          /\ sent.client < MaxChunks
          /\ rx' = rx \o encrypt(method, ClientKey, Payload(sent.client + 1), ClientIv).ct
          /\ sent' = [sent EXCEPT !.client = @ + 1]
    /\ UNCHANGED << supervisorVars, now, protocol, stats, lock, threads, history, method, iv_data, req, username, password, pc, rx_eof, client_lost,
                    client_out, client_writer, target, dial, upstream, urx, urx_eof,
                    target_lost, target_out, fwd, connections, last >>

(***************************************************************************)
(* ShadowsocksConnection.handle, one action per step of the task.          *)
(***************************************************************************)
\* shadowsocks_server.py 172-178
SSReadIv ==
    /\ pc = "SSIv"
    /\ \E r \in { Read(IV_LEN, rx, rx_eof, client_lost) } :
        /\ rx' = r.rest
        /\ IF r.st = "ok" /\ Len(r.data) = IV_LEN
           THEN iv_data' = r.data /\ pc' = "SSAddr"
           ELSE iv_data' = iv_data /\ pc' = "Cleanup"
        /\ last' = [op |-> "iv", inp |-> r.data,
                    ret |-> IF pc' = "SSAddr" THEN "Address" ELSE "None", writes |-> << >>]
    /\ UNCHANGED << supervisorVars, now, protocol, stats, lock, threads, history, method, req, username, password, rx_eof, client_lost, client_out,
                    client_writer, target, dial, upstream, urx, urx_eof, target_lost,
                    target_out, fwd, connections, sent >>

\* shadowsocks_server.py 181-192: read the sealed address, open it and parse
\* (host, port); the task keeps nothing else of the decrypted data
AddressRead(r, opened) ==
    IF r.st # "ok" \/ r.data = << >> \/ ~opened.ok THEN BadAddress
    ELSE _parse_address(opened.pt)
SSReadAddress ==
    /\ pc = "SSAddr"
    /\ \E r \in { Read(ADDR_READ, rx, rx_eof, client_lost) } :
       \E opened \in { decrypt(method, _derive_key(method, password.s), r.data, iv_data) } :
       \E a \in { AddressRead(r, opened) } :
        /\ rx' = r.rest
        /\ target' = IF a.ok THEN [host |-> a.host, port |-> a.port] ELSE target
        /\ pc' = IF a.ok THEN "SSDial" ELSE "Cleanup"
        /\ last' = [op |-> "address", blob |-> r.data,
                    inp |-> IF r.st = "ok" /\ opened.ok THEN opened.pt ELSE << >>,
                    ret |-> IF a.ok THEN "Dial" ELSE "None", writes |-> << >>]
    /\ UNCHANGED << supervisorVars, now, protocol, stats, lock, threads, history, method, iv_data, req, username, password, rx_eof, client_lost,
                    client_out, client_writer, dial, upstream, urx, urx_eof,
                    target_lost, target_out, fwd, connections, sent >>

\* shadowsocks_server.py 196-214: the dial; on success the two copy tasks start
SSOpenConnection ==
    /\ pc = "SSDial"
    /\ \E outcome \in DialOutcomes :
        /\ dial' = outcome
        /\ IF outcome = "ok"
           THEN /\ upstream' = "open"
                /\ stats' = add_connection(stats, ShadowsocksTag, ClientAddr, target)
                /\ fwd' = [c2t |-> "run", t2c |-> "run"]
                /\ pc' = "SSRelay"
           ELSE /\ UNCHANGED << upstream, fwd, stats >>
                /\ pc' = "Cleanup"
        /\ last' = [op |-> "ssdial", blob |-> last.blob, inp |-> last.inp,
                    ret |-> IF outcome = "ok" THEN "Relay" ELSE "None", writes |-> << >>]
    /\ UNCHANGED << supervisorVars, now, protocol, lock, threads, history, method, iv_data, req, username, password, rx, rx_eof, client_lost,
                    client_out, client_writer, target, urx, urx_eof, target_lost,
                    target_out, connections, sent >>

\* shadowsocks_server.py 253-292: one turn of _forward_client_to_target
SSForwardClientToTarget ==
    /\ pc = "SSRelay" /\ fwd.c2t = "run"
    /\ \E r \in { Read(RELAY_CHUNK, rx, rx_eof \/ client_writer = "closed", client_lost) } :
       \E opened \in { decrypt(method, _derive_key(method, password.s), r.data, iv_data) } :
        /\ rx' = r.rest
        /\ IF r.st = "ok" /\ r.data # << >> /\ opened.ok
           THEN /\ target_out' = Append(target_out, opened.pt)
                /\ IF target_lost
                   THEN /\ fwd' = [fwd EXCEPT !.c2t = "done"]
                        /\ upstream' = "closed"
                        /\ stats' = stats
                   ELSE /\ stats' = add_traffic(stats, ShadowsocksTag, Len(r.data), 0)
                        /\ UNCHANGED << fwd, upstream >>
           ELSE /\ fwd' = [fwd EXCEPT !.c2t = "done"]
                /\ upstream' = "closed"
                /\ UNCHANGED << target_out, stats >>
    /\ UNCHANGED << supervisorVars, now, protocol, lock, threads, history, method, iv_data, req, username, password, pc, rx_eof, client_lost,
                    client_out, client_writer, target, dial, urx, urx_eof,
                    target_lost, connections, sent, last >>

\* shadowsocks_server.py 294-333: one turn of _forward_target_to_client
SSForwardTargetToClient ==
    /\ pc = "SSRelay" /\ fwd.t2c = "run"
    /\ \E r \in { Read(RELAY_CHUNK, urx, urx_eof \/ upstream = "closed", target_lost) } :
        /\ urx' = r.rest
        /\ IF r.st = "ok" /\ r.data # << >>
           THEN /\ client_out' = Append(client_out,
                        Relayed(encrypt(method, _derive_key(method, password.s), r.data, iv_data).ct))
                /\ IF client_lost
                   THEN /\ fwd' = [fwd EXCEPT !.t2c = "done"]
                        /\ client_writer' = "closed"
                        /\ stats' = stats
                   ELSE /\ stats' = add_traffic(stats, ShadowsocksTag, 0,
                                Len(encrypt(method, _derive_key(method, password.s), r.data, iv_data).ct))
                        /\ UNCHANGED << fwd, client_writer >>
           ELSE /\ fwd' = [fwd EXCEPT !.t2c = "done"]
                /\ client_writer' = "closed"
                /\ UNCHANGED << client_out, stats >>
    /\ UNCHANGED << supervisorVars, now, protocol, lock, threads, history, method, iv_data, req, username, password, pc, rx, rx_eof,
                    client_lost, target, dial, upstream, urx_eof, target_lost,
                    target_out, connections, sent, last >>

\* shadowsocks_server.py 335-346 and 415-418: _cleanup and the finally block
\* of ShadowsocksServer._handle_client
SSCleanup ==
    /\ protocol = "shadowsocks"
    /\ \/ pc = "Cleanup"
       \/ pc = "SSRelay" /\ fwd.c2t = "done" /\ fwd.t2c = "done"
    /\ client_writer' = "closed"
    /\ rx' = << >>
    /\ connections' = connections \ {ConnectionId}
    /\ stats' = remove_connection(stats, ShadowsocksTag, ClientAddr)
    /\ pc' = "Closed"
    /\ UNCHANGED << supervisorVars, now, protocol, lock, threads, history, method, iv_data, req, username, password, rx_eof, client_lost,
                    client_out, target, dial, upstream, urx, urx_eof, target_lost,
                    target_out, fwd, sent, last >>

\* shadowsocks_server.py 402-408: the connection is registered before handle()
SSInit ==
    /\ method \in {"aes-256-gcm", "aes-256-cfb"}
    /\ username = None
    /\ password = Str(Text("p"))
    /\ protocol = "shadowsocks"
    /\ pc = "SSIv"
    /\ connections = {ConnectionId}
    /\ ConnInit

SSNext ==
    \/ SSClientSend
    \/ ClientEof
    \/ ClientReset
    \/ TargetSend
    \/ TargetEof
    \/ TargetReset
    \/ SSReadIv
    \/ SSReadAddress
    \/ SSOpenConnection
    \/ SSForwardClientToTarget
    \/ SSForwardTargetToClient
    \/ SSCleanup

SpecSS == SSInit /\ [][SSNext]_vars

(***************************************************************************)
(* Claims about the Shadowsocks listener, checked under SpecSS.  The       *)
(* plaintext the task got from the first sealed blob is last.inp.          *)
(***************************************************************************)
\* the length of the address at the head of a plaintext: ATYP, the address, the port
AddressLength(data) ==
    IF data[1] = 1 THEN 7
    ELSE IF data[1] = 3 THEN 4 + data[2]
    ELSE 19
Residual == Drop(last.inp, AddressLength(last.inp))

\* C10 (as claimed): when the first decrypted blob carries plaintext behind
\* the address, that plaintext is the first chunk written upstream, ahead of
\* the plaintext of every later client chunk, and it has been written by the
\* time the copy from the client has ended.
C10_ResidualForwardedFirst ==
    (last.op = "ssdial" /\ dial = "ok" /\ Residual # << >>) =>
        /\ target_out # << >> => target_out[1] = Residual
        /\ fwd.c2t = "done" => target_out # << >>

\* an address in the wire format is at the head of the data: its type tag,
\* its body in full, and its port
HasAddress(data) ==
    /\ data # << >>
    /\ \/ data[1] = 1 /\ Len(data) >= 7
       \/ data[1] = 4 /\ Len(data) >= 19
       \/ data[1] = 3 /\ Len(data) >= 2 /\ Len(data) >= 4 + data[2]
BadIv == last.op = "iv" /\ Len(last.inp) # IV_LEN
DecryptFail ==
    /\ last.op = "address"
    /\ \/ last.blob = << >>
       \/ ~decrypt(method, ClientKey, last.blob, iv_data).ok
       \/ ~HasAddress(decrypt(method, ClientKey, last.blob, iv_data).pt)

\* C11: after a short read of the IV, or a first blob that does not decrypt
\* or does not hold an address, the task goes to its cleanup and the
\* connection is closed: nothing has been or is ever written to the client,
\* no upstream connection is dialled, and the StatsCollector holds no record
\* and no counter of the connection.
C11_SilentTermination ==
    (BadIv \/ DecryptFail) =>
        /\ pc \in {"Cleanup", "Closed"}
        /\ client_out = << >>
        /\ dial = "none" /\ upstream = "none" /\ target_out = << >>
        /\ stats = StatsCollector
        /\ pc = "Closed" => client_writer = "closed" /\ connections = {}

\* an authentic blob under aes-256-gcm that holds no address, a blob sealed
\* with another key, and a short IV, each with the connection closed
C11_Witness ==
    /\ pc = "Closed"
    /\ \/ BadIv /\ last.inp # << >>
       \/ DecryptFail /\ last.blob # << >> /\ method = "aes-256-gcm"

(***************************************************************************)
(* The two address decoders as functions of their input:                   *)
(* ShadowsocksConnection._parse_address on a decrypted blob, and           *)
(* SOCKS5Server._parse_target_address on the bytes that follow the type    *)
(* tag in the client's buffer.  The inputs are addresses in the wire       *)
(* format (type tag, body, big-endian port), whole, cut short, with        *)
(* another tag, or with a length byte that claims too much.                *)
(***************************************************************************)
MaxName == 4
Wire(tag, body, text) == [tag |-> tag, body |-> body, text |-> text]
NameOf(n) == [i \in 1..n |-> 96 + ((i - 1) % 26) + 1]
DnsName(n) == Wire(ADDR_DOMAIN, << n >> \o NameOf(n), NameOf(n))
LongestName == 255
CodecAddresses ==
    { Wire(ADDR_IPV4, Loopback4, Text("127.0.0.1")),
      Wire(ADDR_IPV4, << 10, 0, 200, 255 >>, Text("10.0.200.255")),
      Wire(ADDR_IPV6, Loopback6, Text("::1")),
      Wire(ADDR_IPV6, << 32, 1, 13, 184, 0, 0, 0, 0, 0, 0, 0, 0, 0, 0, 0, 1 >>,
           Text("2001:db8::1")),
      DnsName(LongestName) }
        \cup { DnsName(n) : n \in 1..MaxName }
CodecPorts == { 0, 80, 443, 55555, 65535 }
Encode(a, port) == << a.tag >> \o a.body \o << port \div 256, port % 256 >>
OtherTags == { 0, 2, 5, 255 }
\* how an input is made from the encoding e of an address
CodecCuts(e) ==
    { [kind |-> "whole", data |-> e] }
        \cup { [kind |-> "prefix", data |-> SubSeq(e, 1, k)] : k \in 0..(Len(e) - 1) }
        \cup { [kind |-> "tag", data |-> << t >> \o Tail(e)] : t \in OtherTags }
        \cup { [kind |-> "length", data |-> << e[1], e[2] + d >> \o Tail(Tail(e))] :
                    d \in IF e[1] = ADDR_DOMAIN THEN { 1, 5 } ELSE {} }

CodecInit ==
    /\ protocol \in {"shadowsocks", "socks5"}
    /\ \E a \in CodecAddresses, port \in CodecPorts :
       \E c \in CodecCuts(Encode(a, port)) :
        /\ rx = c.data
        /\ last = [op |-> "input", address |-> a, port |-> port, kind |-> c.kind]
    /\ protocol = "socks5" => rx # << >>
    /\ rx_eof \in BOOLEAN
    /\ pc = "Decode"
    /\ username = None /\ password = None /\ method = "none"
    /\ client_lost = FALSE /\ client_out = << >> /\ client_writer = "open"
    /\ target = NoTarget /\ dial = "none" /\ upstream = "none"
    /\ urx = << >> /\ urx_eof = FALSE /\ target_lost = FALSE /\ target_out = << >>
    /\ fwd = [c2t |-> "idle", t2c |-> "idle"]
    /\ connections = {}
    /\ sent = [client |-> 0, upstream |-> 0]
    /\ req = NoForward /\ iv_data = << >>
    /\ now = Epoch /\ stats = StatsCollector /\ lock = Unlocked
    /\ SupervisorIdle
    /\ threads = [t \in Threads |-> Idle] /\ history = NoHistory

Decoded(r) ==
    [op |-> "decode", address |-> last.address, port |-> last.port, kind |-> last.kind,
     inp |-> rx, ret |-> r]
\* shadowsocks_server.py 191: host, port = self._parse_address(addr_data)
ParseAddress ==
    /\ pc = "Decode" /\ protocol = "shadowsocks"
    /\ last' = Decoded(_parse_address(rx))
    /\ pc' = "Decoded"
    /\ UNCHANGED << supervisorVars, now, protocol, stats, lock, threads, history, method, iv_data, req,
                    username, password, rx, rx_eof, client_lost, client_out,
                    client_writer, target, dial, upstream, urx, urx_eof, target_lost,
                    target_out, fwd, connections, sent >>
\* socks5_server.py 253: host, port = await self._parse_target_address(reader,
\* addr_type), the type tag being the last byte of the request header
ParseTargetAddress ==
    /\ pc = "Decode" /\ protocol = "socks5"
    /\ \E r \in { _parse_target_address(Head(rx), Tail(rx), rx_eof, client_lost) } :
        /\ last' = Decoded(ParsedAddress(~r.host.none, r.host.s, r.port))
        /\ rx' = r.rest
    /\ pc' = "Decoded"
    /\ UNCHANGED << supervisorVars, now, protocol, stats, lock, threads, history, method, iv_data, req,
                    username, password, rx_eof, client_lost, client_out,
                    client_writer, target, dial, upstream, urx, urx_eof, target_lost,
                    target_out, fwd, connections, sent >>

CodecNext ==
    \/ ParseAddress
    \/ ParseTargetAddress

SpecCodec == CodecInit /\ [][CodecNext]_vars

\* C12 (as claimed): the decoder given the whole encoding of an address and
\* a port, and nothing behind it, returns the host of that address (the
\* text of an IP address, the name of a DNS endpoint) and that port.
C12_CodecRoundTrip ==
    (last.op = "decode" /\ last.kind = "whole") =>
        /\ last.ret.ok
        /\ last.ret.host = last.address.text
        /\ last.ret.port = last.port

\* C13: the decoder returns no host and port for an encoding cut short at
\* any length, for any type tag other than 1, 3 and 4, and for a DNS length
\* byte that claims more bytes than follow it.
C13_DecodeFails ==
    (last.op = "decode" /\ last.kind \in {"prefix", "tag", "length"}) => ~last.ret.ok

\* both decoders have refused an input of each of the three kinds
C13_Witness ==
    /\ last.op = "decode" /\ ~last.ret.ok
    /\ \/ last.kind = "prefix" /\ Len(last.inp) >= 7
       \/ last.kind = "tag" /\ Len(last.inp) >= 7
       \/ last.kind = "length" /\ Len(last.inp) >= 7

(***************************************************************************)
(* ShadowsocksCrypto as a pair of functions: one object made from a        *)
(* method and a password encrypts a plaintext, with the IV it is given or  *)
(* the one os.urandom draws, and decrypts the ciphertext with the IV that  *)
(* encrypt returned (shadowsocks_server.py 469-474).                       *)
(***************************************************************************)
MaxPlain == 2
PlainBytes == { 0, 104, 255 }
CryptoPasswords == { << >>, Text("p"), Text("pw") }
Ivs(m) ==
    { [i \in 1..SUPPORTED_METHODS[m].iv_len |-> i],
      [i \in 1..SUPPORTED_METHODS[m].iv_len |-> (7 * i + 250) % 256] }

CryptoInit ==
    /\ method \in DOMAIN SUPPORTED_METHODS
    /\ password \in { Str(w) : w \in CryptoPasswords }
    /\ \E plaintext \in SeqsUpTo(PlainBytes, MaxPlain) :
            last = [op |-> "input", plaintext |-> plaintext]
    /\ pc = "Encrypt"
    /\ protocol = "shadowsocks"
    /\ username = None
    /\ rx = << >> /\ rx_eof = FALSE
    /\ client_lost = FALSE /\ client_out = << >> /\ client_writer = "open"
    /\ target = NoTarget /\ dial = "none" /\ upstream = "none"
    /\ urx = << >> /\ urx_eof = FALSE /\ target_lost = FALSE /\ target_out = << >>
    /\ fwd = [c2t |-> "idle", t2c |-> "idle"]
    /\ connections = {}
    /\ sent = [client |-> 0, upstream |-> 0]
    /\ req = NoForward /\ iv_data = << >>
    /\ now = Epoch /\ stats = StatsCollector /\ lock = Unlocked
    /\ SupervisorIdle
    /\ threads = [t \in Threads |-> Idle] /\ history = NoHistory

\* crypto.encrypt(original_data)
CryptoEncrypt ==
    /\ pc = "Encrypt"
    /\ \E iv \in Ivs(method) :
       \E r \in { encrypt(method, _derive_key(method, password.s), last.plaintext, iv) } :
        /\ last' = [op |-> "encrypt", plaintext |-> last.plaintext, ret |-> r]
        /\ iv_data' = r.iv
        /\ pc' = IF r.ok THEN "Decrypt" ELSE "Raised"
    /\ UNCHANGED << supervisorVars, now, protocol, stats, lock, threads, history, method, req, username,
                    password, rx, rx_eof, client_lost, client_out, client_writer,
                    target, dial, upstream, urx, urx_eof, target_lost, target_out,
                    fwd, connections, sent >>
\* crypto.decrypt(encrypted_data, iv)
CryptoDecrypt ==
    /\ pc = "Decrypt"
    /\ last' = [op |-> "decrypt", plaintext |-> last.plaintext,
                ret |-> decrypt(method, _derive_key(method, password.s),
                                last.ret.ct, iv_data)]
    /\ pc' = "Done"
    /\ UNCHANGED << supervisorVars, now, protocol, stats, lock, threads, history, method, iv_data, req,
                    username, password, rx, rx_eof, client_lost, client_out,
                    client_writer, target, dial, upstream, urx, urx_eof, target_lost,
                    target_out, fwd, connections, sent >>

CryptoNext ==
    \/ CryptoEncrypt
    \/ CryptoDecrypt

SpecCrypto == CryptoInit /\ [][CryptoNext]_vars

\* C14: for every supported method, password and plaintext, encrypt returns
\* a ciphertext and an IV, and decrypt of that ciphertext with that IV
\* returns the plaintext.
C14_DecryptInvertsEncrypt ==
    /\ last.op = "encrypt" => last.ret.ok
    /\ last.op = "decrypt" => last.ret.ok /\ last.ret.pt = last.plaintext

C14_Witness ==
    /\ last.op = "decrypt" /\ last.ret.pt = last.plaintext
    /\ Len(last.plaintext) = MaxPlain
    /\ method = "chacha20-ietf-poly1305"
    /\ password = Str(<< >>)

(***************************************************************************)
(* The three listeners side by side: a connection accepted by the SOCKS5   *)
(* listener, with or without credentials, by the HTTP listener without     *)
(* credentials, the client sending a request line without further          *)
(* headers, or by the Shadowsocks listener.                                *)
(* Under the fair specification a copy task whose read can return (bytes   *)
(* are buffered, EOF was fed, or the connection broke) takes its turn, and *)
(* a task that has left the relay runs its cleanup; the idle timeout of a  *)
(* read may fire, but nothing makes it.                                    *)
(***************************************************************************)
RelayRequests == { HttpRequestText(l, << >>) : l \in RequestLineMenu }
RelayInit ==
    \/ S5Init /\ << username, password >> \in { << None, None >>, << Str(<< 117 >>), Str(<< 112 >>) >> }
    \/ HttpInit /\ username = None
    \/ SSInit

RelayNext ==
    \/ ClientSend([at \in HandshakePcs |-> S5Messages(at)])
    \/ ClientSend([at \in {"HttpRequest"} |-> RelayRequests])
    \/ SSClientSend
    \/ ClientEof
    \/ ClientReset
    \/ TargetSend
    \/ TargetEof
    \/ TargetReset
    \/ S5Handshake
    \/ S5UserPass
    \/ S5ConnectRequest
    \/ S5OpenConnection
    \/ HttpHandleClient
    \/ HttpOpenTunnel
    \/ HttpForwardRequest
    \/ HttpPipeResponse
    \/ SSReadIv
    \/ SSReadAddress
    \/ SSOpenConnection
    \/ ForwardClientToTarget
    \/ ForwardTargetToClient
    \/ SSForwardClientToTarget
    \/ SSForwardTargetToClient
    \/ S5Cleanup
    \/ HttpCleanup
    \/ SSCleanup

SpecRelay == RelayInit /\ [][RelayNext]_vars

\* the read of the copy task of a direction can return without a timeout
ClientReadableUntilEof == rx # << >> \/ rx_eof \/ client_lost
ClientReadable == rx # << >> \/ rx_eof \/ client_writer = "closed" \/ client_lost
TargetReadable == urx # << >> \/ urx_eof \/ upstream = "closed" \/ target_lost
SpecRelayFair ==
    /\ SpecRelay
    /\ WF_vars(ClientReadable /\ (ForwardClientToTarget \/ SSForwardClientToTarget))
    /\ WF_vars(TargetReadable /\ (ForwardTargetToClient \/ SSForwardTargetToClient))

RelayStarted == fwd.c2t # "idle"

C16_RelayReturnsWhenBothClosed ==
    /\ (RelayStarted /\ pc \in {"Cleanup", "Closed"}) =>
            fwd.c2t = "done" /\ fwd.t2c = "done"
    /\ (fwd.c2t = "done" /\ fwd.t2c = "done") =>
            upstream = "closed" /\ client_writer = "closed"

C16_Witness ==
    /\ RelayOver
    /\ target_out # << >>
    /\ \E i \in 1..Len(client_out) : client_out[i].kind = "relay"

(***************************************************************************)
(* Claims about the accounting of relayed chunks.                          *)
(***************************************************************************)
Counters ==
    IF StatsTag(protocol) \in DOMAIN stats.protocol_stats
    THEN stats.protocol_stats[StatsTag(protocol)]
    ELSE TrafficStats(StatsTag(protocol))
\* a step that copied a chunk to upstream, or to the client, and flushed it
CopiedUp == target_out' # target_out /\ fwd.c2t = "run" /\ ~target_lost
CopiedDown ==
    /\ client_out' # client_out /\ fwd.t2c = "run" /\ ~client_lost
    /\ client_out'[Len(client_out')].kind = "relay"

\* C17 (as claimed): a step of the relay that copies a chunk from the client
\* to upstream adds the length of the chunk to the upload counter of the
\* listener's protocol and leaves its download counter alone, and a step
\* that copies a chunk from upstream to the client adds its length to the
\* download counter and leaves the upload counter alone.
C17_ChunkCountedInItsDirection ==
    [][ /\ CopiedUp =>
            /\ Counters'.upload = Counters.upload + Len(target_out'[Len(target_out')])
            /\ Counters'.download = Counters.download
        /\ CopiedDown =>
            /\ Counters'.download =
                    Counters.download + Len(client_out'[Len(client_out')].data)
            /\ Counters'.upload = Counters.upload ]_vars

(***************************************************************************)
(* Claims about the order of relayed bytes.                                *)
(***************************************************************************)
RECURSIVE LeadingReplies(_)
\* how many write calls of the listener's own precede the first copied chunk
LeadingReplies(w) ==
    IF w = << >> \/ Head(w).kind = "relay" THEN 0 ELSE 1 + LeadingReplies(Tail(w))
RECURSIVE WrittenBytes(_)
WrittenBytes(w) == IF w = << >> THEN << >> ELSE Head(w).data \o WrittenBytes(Tail(w))
RECURSIVE JoinChunks(_)
JoinChunks(w) == IF w = << >> THEN << >> ELSE Head(w) \o JoinChunks(Tail(w))
\* what has been written to the client since the first copied chunk
WrittenToClient ==
    WrittenBytes(SubSeq(client_out, LeadingReplies(client_out) + 1, Len(client_out)))
\* what a tunnel has written upstream
WrittenToTarget == IF fwd.c2t = "idle" THEN << >> ELSE JoinChunks(target_out)
\* b is a followed by the bytes that left the front of the buffer
Extends(a, b, buf, rest) ==
    /\ Len(a) <= Len(b)
    /\ SubSeq(b, 1, Len(a)) = a
    /\ buf = SubSeq(b, Len(a) + 1, Len(b)) \o rest

\* C18 (as claimed): in every step that writes to the client once the copy
\* of upstream's bytes has begun, what is written is what the step has read
\* from the front of upstream's stream, appended to what was written before;
\* likewise for what a tunnel writes upstream and the client's stream.  So
\* the bytes written are at every moment a prefix of the bytes read, in order.
C18_WrittenIsPrefixOfRead ==
    [][ /\ WrittenToClient' # WrittenToClient =>
                Extends(WrittenToClient, WrittenToClient', urx, urx')
        /\ (fwd.c2t # "idle" /\ WrittenToTarget' # WrittenToTarget) =>
                Extends(WrittenToTarget, WrittenToTarget', rx, rx') ]_vars

(***************************************************************************)
(* The StatsCollector called from threads: each call takes self.lock,      *)
(* runs its statements one at a time, and releases the lock on return.     *)
(***************************************************************************)
MaxCalls == 4        \* calls the threads make in a behaviour
OtherAddr == Endpoint(Text("c"), 8)
UpstreamAddr == Endpoint(Text("h"), 80)
ConnectionKeys ==
    { << Socks5Tag, ClientAddr >>, << Socks5Tag, OtherAddr >>, << HttpTag, ClientAddr >> }
StatsCalls ==
    { Call("add_connection", k[1], k[2], UpstreamAddr, 0, 0) : k \in ConnectionKeys }
    \cup { Call("remove_connection", k[1], k[2], NoEndpoint, 0, 0) : k \in ConnectionKeys }
    \cup { Call("add_traffic", Socks5Tag, NoEndpoint, NoEndpoint, 1, 2),
           Call("add_traffic", HttpTag, NoEndpoint, NoEndpoint, 2, 1),
           Call("reset_stats", << >>, NoEndpoint, NoEndpoint, 0, 0),
           Call("get_current_stats", << >>, NoEndpoint, NoEndpoint, 0, 0) }

\* RLock.acquire returns at once for the owner and for anyone when it is free
CanAcquireAlways(l, t) == TRUE
CanAcquire(l, t) == l.owner \in {"none", t}
Acquire(l, t) == [owner |-> t, count |-> l.count + 1]
Release(l) == IF l.count <= 1 THEN Unlocked ELSE [l EXCEPT !.count = @ - 1]

Count(f, k) == IF k \in DOMAIN f THEN f[k] ELSE 0
\* the calls that have returned, for the claims about them
Record(h, c) ==
    LET id == connection_id(c.protocol, c.client_addr) IN
    CASE c.op = "add_connection" -> [h EXCEPT !.added = Put(@, id, Count(@, id) + 1)]
      [] c.op = "remove_connection" -> [h EXCEPT !.removed = Put(@, id, Count(@, id) + 1)]
      [] c.op = "reset_stats" -> [h EXCEPT !.reset = TRUE]
      [] OTHER -> h

StatsInit ==
    /\ username = None /\ password = None
    /\ method = "none" /\ protocol = "none"
    /\ pc = "Closed"
    /\ connections = {}
    /\ ConnInit

\* a thread calls a method of the collector
StatsCall(t) ==
    /\ threads[t].call.op = "none"
    /\ history.calls < MaxCalls
    /\ \E c \in StatsCalls :
        threads' = [threads EXCEPT ![t] = [call |-> c, at |-> 0, ret |-> NoSnapshot]]
    /\ history' = [history EXCEPT !.calls = @ + 1]
    /\ UNCHANGED << supervisorVars, now, stats, lock, protocol, method, iv_data, req, username, password,
                    pc, rx, rx_eof, client_lost, client_out, client_writer, target,
                    dial, upstream, urx, urx_eof, target_lost, target_out, fwd,
                    connections, sent, last >>

\* `with self.lock:` on entry
StatsAcquire(t) ==
    /\ threads[t].call.op # "none" /\ threads[t].at = 0
    /\ CanAcquire(lock, t)
    /\ lock' = Acquire(lock, t)
    /\ threads' = [threads EXCEPT ![t].at = 1]
    /\ UNCHANGED << supervisorVars, now, stats, history, protocol, method, iv_data, req, username, password,
                    pc, rx, rx_eof, client_lost, client_out, client_writer, target,
                    dial, upstream, urx, urx_eof, target_lost, target_out, fwd,
                    connections, sent, last >>

\* the next statement of the method's body
StatsLine(t) ==
    /\ threads[t].at \in 1..Len(Program(threads[t].call.op))
    /\ \E l \in { Program(threads[t].call.op)[threads[t].at] } :
        /\ stats' = Line(stats, At(threads[t].call, now), l)
        /\ threads' = [threads EXCEPT ![t].at = @ + 1,
                                      ![t].ret = Observe(@, stats, l)]
    /\ UNCHANGED << supervisorVars, now, lock, history, protocol, method, iv_data, req, username, password,
                    pc, rx, rx_eof, client_lost, client_out, client_writer, target,
                    dial, upstream, urx, urx_eof, target_lost, target_out, fwd,
                    connections, sent, last >>

\* the end of the `with` block: the lock is released and the call returns
StatsReturn(t) ==
    /\ threads[t].at = Len(Program(threads[t].call.op)) + 1
    /\ lock' = Release(lock)
    /\ history' = Record(history, threads[t].call)
    /\ threads' = [threads EXCEPT ![t].call = NoCall, ![t].at = 0]
    /\ UNCHANGED << supervisorVars, now, stats, protocol, method, iv_data, req, username, password,
                    pc, rx, rx_eof, client_lost, client_out, client_writer, target,
                    dial, upstream, urx, urx_eof, target_lost, target_out, fwd,
                    connections, sent, last >>

StatsNext ==
    \/ \E t \in Threads : StatsCall(t)
    \/ \E t \in Threads : StatsAcquire(t)
    \/ \E t \in Threads : StatsLine(t)
    \/ \E t \in Threads : StatsReturn(t)

SpecStats == StatsInit /\ [][StatsNext]_vars

RECURSIVE SumField(_, _)
\* sum(v.field for v in f.values())
SumField(f, field) ==
    IF DOMAIN f = {} THEN 0
    ELSE LET k == CHOOSE k \in DOMAIN f : TRUE IN f[k][field] + SumField(Del(f, k), field)
RECURSIVE SumCounts(_)
SumCounts(f) ==
    IF DOMAIN f = {} THEN 0
    ELSE LET k == CHOOSE k \in DOMAIN f : TRUE IN f[k] + SumCounts(Del(f, k))
AllReturned == \A t \in Threads : threads[t].call.op = "none"

\* C19 (as claimed): once N add_connection calls and the same N
\* remove_connection calls (the same tags and client endpoints, N >= 1, no
\* reset among the calls) have all returned, in whatever order the threads
\* ran them, no connection is live -- no record is left and every protocol's
\* live count is 0 -- and the cumulative connection count is N.
C19_AddsAndRemovesBalance ==
    ( /\ AllReturned
      /\ ~history.reset
      /\ history.added # EmptyMap
      /\ history.removed = history.added )
    => /\ DOMAIN stats.active_connections = {}
       /\ SumField(stats.protocol_stats, "connections") = 0
       /\ stats.total_connections = SumCounts(history.added)

Consistent(d) ==
    /\ SumField(d.protocols, "upload") = d.total_upload
    /\ SumField(d.protocols, "download") = d.total_download

\* C20: whenever self.lock is free, which is when another caller can look
\* at the collector, the per-protocol upload counters add up to total_upload
\* and the download counters to total_download; and the totals of every dict
\* returned by get_current_stats equal the sums over its own protocols.
C20_TotalsEqualProtocolSums ==
    /\ lock.owner = "none" =>
            /\ SumField(stats.protocol_stats, "upload") = stats.total_upload
            /\ SumField(stats.protocol_stats, "download") = stats.total_download
    /\ \A t \in Threads : threads[t].call.op = "none" => Consistent(threads[t].ret)
\* a snapshot taken after traffic was counted, while the other thread waits
C20_Witness ==
    \E t \in Threads :
        /\ threads[t].call.op = "none"
        /\ threads[t].ret.total_upload > 0
        /\ Cardinality(DOMAIN threads[t].ret.protocols) = 2
        /\ lock.owner = "none"
        /\ stats.total_download > 0

(***************************************************************************)
(* Claims about the collector's connection counters.                       *)
(***************************************************************************)
StatsTags == { Socks5Tag, HttpTag, ShadowsocksTag }
\* protocol_stats[tag].connections, 0 for a tag the collector has not seen
\* (as get_current_stats and get_protocol_stats report it)
LiveCounter(s, tag) ==
    IF tag \in DOMAIN s.protocol_stats THEN s.protocol_stats[tag].connections ELSE 0
\* len([c for c in active_connections.values() if c.protocol == tag])
LiveRecords(s, tag) ==
    Cardinality({ id \in DOMAIN s.active_connections :
                    s.active_connections[id].protocol = tag })

\* C21 (as claimed): whenever no call is inside the collector, the live
\* connection counter of every protocol tag equals the number of records of
\* active_connections that carry the tag.
C21_LiveCounterCountsRecords ==
    lock.owner = "none" =>
        \A tag \in StatsTags : LiveCounter(stats, tag) = LiveRecords(stats, tag)

(***************************************************************************)
(* The StatsCollector over a day and more: one caller, whole calls, and    *)
(* the clock moving between them.                                          *)
(***************************************************************************)
MaxHours == 26       \* hours the clock runs past the construction
MaxGaps == 1         \* hours without traffic among those of the ring
MaxTraffic == 1      \* calls of add_traffic that carry bytes
MaxRecords == 1      \* calls of add_connection
MaxBusy == 2         \* buckets in the ring when the last bytes and connections come
\* hours between the oldest and the newest bucket that have no bucket
Gaps(ring) ==
    IF ring = << >> THEN 0
    ELSE ring[Len(ring)].hour - ring[1].hour + 1 - Len(ring)
TrafficMenu == { << 0, 0 >>, << 1, 2 >> }

\* add_traffic(tag, upload, download), dt seconds after the last call
HourlyAddTraffic ==
    \E dt \in { 0, HOUR, 2 * HOUR }, tag \in { Socks5Tag }, amount \in TrafficMenu :
        /\ now + dt <= Epoch + MaxHours * HOUR
        /\ dt = 2 * HOUR => Gaps(stats.hourly_stats) < MaxGaps
        /\ amount[1] > 0 =>
                stats.total_upload < MaxTraffic /\ Len(stats.hourly_stats) < MaxBusy
        /\ now' = now + dt
        /\ stats' = Run(stats, At(Call("add_traffic", tag, NoEndpoint, NoEndpoint,
                                       amount[1], amount[2]), now + dt),
                        Program("add_traffic"))
        /\ last' = [op |-> "add_traffic", time |-> now + dt]
        /\ UNCHANGED << supervisorVars, lock, threads, history, protocol, method, iv_data, req,
                        username, password, pc, rx, rx_eof, client_lost, client_out,
                        client_writer, target, dial, upstream, urx, urx_eof,
                        target_lost, target_out, fwd, connections, sent >>

HourlyAddConnection ==
    /\ stats.total_connections < MaxRecords /\ Len(stats.hourly_stats) < MaxBusy
    /\ stats' = add_connection(stats, HttpTag, ClientAddr, UpstreamAddr)
    /\ last' = [op |-> "add_connection", time |-> now]
    /\ UNCHANGED << supervisorVars, now, lock, threads, history, protocol, method, iv_data, req,
                    username, password, pc, rx, rx_eof, client_lost, client_out,
                    client_writer, target, dial, upstream, urx, urx_eof,
                    target_lost, target_out, fwd, connections, sent >>

\* reset_stats(), once in a behaviour
HourlyReset ==
    /\ ~history.reset
    /\ stats' = Run(stats, At(Call("reset_stats", << >>, NoEndpoint, NoEndpoint, 0, 0), now),
                    Program("reset_stats"))
    /\ history' = [history EXCEPT !.reset = TRUE]
    /\ last' = [op |-> "reset_stats", time |-> now,
                held |-> [upload |-> stats.total_upload,
                          connections |-> stats.total_connections,
                          records |-> Cardinality(DOMAIN stats.active_connections),
                          buckets |-> Len(stats.hourly_stats)]]
    /\ UNCHANGED << supervisorVars, now, lock, threads, protocol, method, iv_data, req,
                    username, password, pc, rx, rx_eof, client_lost, client_out,
                    client_writer, target, dial, upstream, urx, urx_eof,
                    target_lost, target_out, fwd, connections, sent >>

HourlyNext == HourlyAddTraffic \/ HourlyAddConnection \/ HourlyReset
SpecHourly == StatsInit /\ [][HourlyNext]_vars

\* C22: right after reset_stats the three totals are 0, no protocol is left
\* with a counter, so every per-protocol upload, download and connection
\* counter reads 0, and start_time is the time of the reset, whatever
\* traffic, connections and buckets the collector held before.
C22_ResetZeroesCounters ==
    last.op = "reset_stats" =>
        /\ stats.total_upload = 0 /\ stats.total_download = 0
        /\ stats.total_connections = 0
        /\ \A tag \in StatsTags :
                /\ LiveCounter(stats, tag) = 0
                /\ tag \notin DOMAIN stats.protocol_stats
        /\ stats.start_time = last.time
\* a reset of a collector that held traffic, a connection and buckets, hours
\* after it was constructed
C22_Witness ==
    /\ last.op = "reset_stats"
    /\ last.time > Epoch + HOUR
    /\ last.held.upload > 0 /\ last.held.connections > 0
    /\ last.held.records > 0 /\ last.held.buckets > 0
    /\ stats.start_time = last.time

UploadOf(s, tag) ==
    IF tag \in DOMAIN s.protocol_stats THEN s.protocol_stats[tag].upload ELSE 0
DownloadOf(s, tag) ==
    IF tag \in DOMAIN s.protocol_stats THEN s.protocol_stats[tag].download ELSE 0
BytesNotSmaller ==
    /\ stats'.total_upload >= stats.total_upload
    /\ stats'.total_download >= stats.total_download
    /\ \A tag \in StatsTags :
            /\ UploadOf(stats', tag) >= UploadOf(stats, tag)
            /\ DownloadOf(stats', tag) >= DownloadOf(stats, tag)

Protocols == << "shadowsocks", "vmess", "trojan", "socks5", "http" >>
ProtocolSet == { Protocols[i] : i \in 1..Len(Protocols) }
ConfiguredPort ==
    [tag \in ProtocolSet |->
        CASE tag = "shadowsocks" -> 8388 [] tag = "vmess" -> 10086
          [] tag = "trojan" -> 8443 [] tag = "socks5" -> 1080 [] OTHER -> 8080]
\* a block of the configuration: None, or a dict with or without 'enabled'
ConfiguredTimeout == [tag \in ProtocolSet |-> 60]
NoBlock == [present |-> FALSE, enabled |-> "missing", port |-> 0,
            has_timeout |-> FALSE, timeout |-> 0]
Block(tag, enabled) == [present |-> TRUE, enabled |-> enabled, port |-> ConfiguredPort[tag],
                        has_timeout |-> FALSE, timeout |-> 0]
\* an enabled block that gives a timeout
TimedBlock(tag) == [Block(tag, "True") EXCEPT !.has_timeout = TRUE,
                                              !.timeout = ConfiguredTimeout[tag]]
Blocks(tag) == { NoBlock, Block(tag, "missing"), Block(tag, "False"), Block(tag, "True"),
                 TimedBlock(tag) }
\* `self.config.x and self.config.x.get('enabled', False)`
EnabledAlways(block) == TRUE
Enabled(block) == block.present /\ block.enabled = "True"

NoStops == [tag \in ProtocolSet |-> 0]
\* every variable of a connection task but `last`
idleVars == << username, password, pc, rx, rx_eof, client_lost, client_out,
               client_writer, target, dial, upstream, urx, urx_eof, target_lost,
               target_out, fwd, connections, sent, req, method, iv_data,
               protocol, lock, threads, history >>

\* SOCKS5Server.__init__ and its like: server = None, running = False,
\* connections = {}
DEFAULT_TIMEOUT == 300
Listener(port) == [port |-> port, server |-> "none", running |-> FALSE, connections |-> {},
                   timeout |-> DEFAULT_TIMEOUT]
\* the timeout start_servers passes to the constructor: the Shadowsocks block
\* gives `timeout=self.config.shadowsocks.get('timeout', 300)` (server.py 110),
\* the other blocks pass none and the constructor keeps its default
TimeoutPassed(tag, block) ==
    IF tag = "shadowsocks" /\ block.has_timeout THEN block.timeout ELSE DEFAULT_TIMEOUT
Construct(tag, block) == [Listener(block.port) EXCEPT !.timeout = TimeoutPassed(tag, block)]

\* server.py 104-158: the next block of start_servers
SetupBlock ==
    /\ sup.pc = "setup" /\ sup.step <= Len(Protocols)
    /\ \E tag \in { Protocols[sup.step] } :
        IF Enabled(config[tag])
        THEN /\ servers' = Put(servers, tag, Construct(tag, config[tag]))
             /\ tasks' = Put(tasks, tag, "created")
        ELSE UNCHANGED << servers, tasks >>
    /\ sup' = [sup EXCEPT !.step = @ + 1]
    /\ UNCHANGED << taskVars, stats, now, config, conns >>

\* server.py 173-204: the handlers are set, running = True, and the gather
\* starts the coroutines
SetupDone ==
    /\ sup.pc = "setup" /\ sup.step = Len(Protocols) + 1
    /\ sup' = [sup EXCEPT !.pc = "gather", !.running = TRUE]
    /\ UNCHANGED << taskVars, stats, now, config, servers, tasks, conns >>

\* start() of a listener: asyncio.start_server binds or raises; once bound,
\* running = True and the coroutine stays in serve_forever
ListenerStart ==
    /\ sup.pc = "gather"
    /\ \E tag \in DOMAIN tasks, bound \in BOOLEAN :
        /\ tasks[tag] = "created"
        /\ IF bound
           THEN /\ servers' = [servers EXCEPT ![tag].server = "listening",
                                              ![tag].running = TRUE]
                /\ tasks' = [tasks EXCEPT ![tag] = "serving"]
           ELSE /\ tasks' = [tasks EXCEPT ![tag] = "raised"]
                /\ servers' = servers
        /\ last' = [op |-> "start", tag |-> tag, bound |-> bound]
    /\ UNCHANGED << idleVars, stats, now, config, conns, sup >>

TaskIdle ==
    /\ username = None /\ password = None
    /\ method = "none" /\ protocol = "none"
    /\ pc = "Closed" /\ connections = {}
    /\ rx = << >> /\ rx_eof = FALSE /\ client_lost = FALSE
    /\ client_out = << >> /\ client_writer = "open"
    /\ target = NoTarget /\ dial = "none" /\ upstream = "none"
    /\ urx = << >> /\ urx_eof = FALSE /\ target_lost = FALSE
    /\ target_out = << >>
    /\ fwd = [c2t |-> "idle", t2c |-> "idle"]
    /\ sent = [client |-> 0, upstream |-> 0]
    /\ last = [op |-> "none"]
    /\ req = NoForward
    /\ iv_data = << >>
    /\ now = Epoch
    /\ stats = StatsCollector
    /\ lock = Unlocked
    /\ threads = [t \in Threads |-> Idle]
    /\ history = NoHistory

\* MultiProtocolServer.__init__ (server.py 52-56) with any configuration
SetupInit ==
    /\ TaskIdle
    /\ config \in [ProtocolSet -> UNION { Blocks(tag) : tag \in ProtocolSet }]
    /\ \A tag \in ProtocolSet : config[tag] \in Blocks(tag)
    /\ servers = EmptyMap /\ tasks = EmptyMap /\ conns = EmptyMap
    /\ sup = [pc |-> "setup", step |-> 1, running |-> FALSE, todo |-> << >>,
              stops |-> NoStops, collector |-> TRUE, exit |-> "none"]

SetupNext == SetupBlock \/ SetupDone \/ ListenerStart
SpecSetup == SetupInit /\ [][SetupNext]_vars

\* C26: once start_servers waits on its gather, self.servers holds a
\* listener exactly for the protocols whose block is enabled, under the
\* protocol's tag and with the port of its block, and the start() of each is
\* among the coroutines launched; a protocol whose block is absent or
\* disabled has no listener, no coroutine and so no listening socket.
C26_OneListenerPerEnabledBlock ==
    sup.pc = "gather" =>
        /\ DOMAIN servers = { tag \in ProtocolSet :
                                 config[tag].present /\ config[tag].enabled = "True" }
        /\ DOMAIN tasks = DOMAIN servers
        /\ \A tag \in DOMAIN servers :
                /\ servers[tag].port = config[tag].port
                /\ servers[tag].server = "listening" <=> tasks[tag] = "serving"
\* some blocks enabled and bound, one disabled, one absent, one without flag
C26_Witness ==
    /\ sup.pc = "gather"
    /\ tasks = [tag \in {"socks5", "http"} |-> "serving"]
    /\ config["shadowsocks"] = Block("shadowsocks", "False")
    /\ config["vmess"] = NoBlock
    /\ config["trojan"] = Block("trojan", "missing")
    /\ servers["socks5"].port = ConfiguredPort["socks5"]

(***************************************************************************)
(* The listeners at work: start(), _handle_client for each accepted        *)
(* connection, stop(), and the gather and cleanup of the supervisor.       *)
(* A connection task is its position (handshake, relay, ended) and the     *)
(* state of its two sockets.                                               *)
(***************************************************************************)
MaxConns == 2
MaxStops == 2
MaxRelayed == 1

ConnIds == 1..MaxConns
ClientOf(id) == Endpoint(Text("c"), 6 + id)
Connection(tag) == [tag |-> tag, at |-> "handshake", client |-> "open",
                    upstream |-> "none", beat |-> 0]
Live(tag) == { id \in DOMAIN conns : conns[id].tag = tag /\ conns[id].at # "ended" }
Relaying(tag) == { id \in DOMAIN conns : conns[id].tag = tag /\ conns[id].at = "relay" }

\* the per-connection errors, and the protocols whose handler can meet them
ErrorKinds == { "bad handshake", "authentication", "decrypt", "dial", "io", "timeout" }
Meets(tag, kind) ==
    /\ kind = "decrypt" => tag = "shadowsocks"
    /\ kind = "authentication" => tag # "shadowsocks"

\* `if self.stats:` around every call of the collector
WithStats(s, after) == IF sup.collector THEN after ELSE s

\* stop(): running = False, the listening server is closed, connections.clear()
StopKeepsConnections(l) == [l EXCEPT !.running = FALSE]
Stop(l) ==
    [l EXCEPT !.running = FALSE,
              !.server = IF @ = "listening" THEN "closed" ELSE @,
              !.connections = {}]

\* the `except Exception` and `finally` of _handle_client, seen from the
\* listener: the entry of the connection is deleted, if there is one
ErrorStopsListener(l, id) == [l EXCEPT !.running = FALSE, !.server = "closed"]
Contained(l, id) == [l EXCEPT !.connections = @ \ {id}]

\* asyncio.gather(*tasks, return_exceptions=True) is over when every
\* coroutine has returned, raised or been cancelled
GatheredOnFirstError(t) == \E tag \in DOMAIN t : t[tag] \in { "raised", "cancelled" }
Gathered(t) == \A tag \in DOMAIN t : t[tag] \in { "raised", "cancelled" }

\* remove_connection for each of a set of connections
RECURSIVE RemoveAll(_, _)
RemoveAll(s, ids) ==
    IF ids = {} THEN s
    ELSE LET id == CHOOSE i \in ids : \A j \in ids : i <= j
         IN  RemoveAll(remove_connection(s, Text(conns[id].tag), ClientOf(id)), ids \ {id})

\* the teardown of a connection task: both writers closed, the entry of the
\* listener deleted, remove_connection
Ended(c) == [c EXCEPT !.at = "ended", !.client = "closed",
                      !.upstream = IF @ = "none" THEN "none" ELSE "closed"]

\* _handle_client is called for a connection the listening server accepted;
\* the Shadowsocks listener enters it in connections at once (406)
Accept ==
    /\ sup.pc = "gather"
    /\ Cardinality(DOMAIN conns) < MaxConns
    /\ \E tag \in DOMAIN servers :
        /\ servers[tag].server = "listening"
        /\ LET id == Cardinality(DOMAIN conns) + 1
           IN  /\ conns' = Put(conns, id, Connection(tag))
               /\ servers' = IF tag = "shadowsocks"
                             THEN [servers EXCEPT ![tag].connections = @ \cup {id}]
                             ELSE servers
               /\ last' = [op |-> "accept", tag |-> tag, id |-> id]
    /\ UNCHANGED << idleVars, stats, now, config, tasks, sup >>

\* the handshake is over and the dial succeeded: the SOCKS5 and HTTP
\* listeners enter the connection in connections, add_connection, the relay
ConnProceed ==
    /\ sup.pc = "gather"
    /\ \E id \in DOMAIN conns :
        /\ conns[id].at = "handshake" /\ conns[id].client = "open"
        /\ conns' = [conns EXCEPT ![id].at = "relay", ![id].upstream = "open"]
        /\ servers' = IF conns[id].tag = "shadowsocks" THEN servers
                      ELSE [servers EXCEPT ![conns[id].tag].connections = @ \cup {id}]
        /\ stats' = WithStats(stats, add_connection(stats, Text(conns[id].tag),
                                                    ClientOf(id), UpstreamAddr))
        /\ last' = [op |-> "relay", tag |-> conns[id].tag, id |-> id]
    /\ UNCHANGED << idleVars, now, config, tasks, sup >>

\* an error before the relay: caught in the handler, then its teardown
ConnFail ==
    /\ sup.pc = "gather"
    /\ \E id \in DOMAIN conns, kind \in ErrorKinds :
        /\ conns[id].at = "handshake"
        /\ Meets(conns[id].tag, kind)
        /\ conns' = [conns EXCEPT ![id] = Ended(@)]
        /\ servers' = [servers EXCEPT ![conns[id].tag] = Contained(@, id)]
        /\ stats' = WithStats(stats, remove_connection(stats, Text(conns[id].tag), ClientOf(id)))
        /\ last' = [op |-> "error", tag |-> conns[id].tag, id |-> id, kind |-> kind]
    /\ UNCHANGED << idleVars, now, config, tasks, sup >>

\* one chunk is copied from the client to the target and counted
ConnCopy ==
    /\ sup.pc = "gather"
    /\ \E id \in DOMAIN conns :
        /\ conns[id].at = "relay"
        /\ conns[id].client = "open" /\ conns[id].upstream = "open"
        /\ sup.collector => stats.total_upload < MaxRelayed
        /\ conns' = [conns EXCEPT ![id].beat = 1 - @]
        /\ stats' = WithStats(stats, add_traffic(stats, Text(conns[id].tag), 1, 0))
        /\ last' = [op |-> "copy", tag |-> conns[id].tag, id |-> id]
    /\ UNCHANGED << idleVars, now, config, servers, tasks, sup >>

\* the relay is over (end of stream, an I/O error or the idle timeout in
\* both directions), then the teardown
ConnEnd ==
    /\ sup.pc = "gather"
    /\ \E id \in DOMAIN conns, kind \in { "eof", "io", "timeout" } :
        /\ conns[id].at = "relay"
        /\ conns' = [conns EXCEPT ![id] = Ended(@)]
        /\ servers' = [servers EXCEPT ![conns[id].tag] = Contained(@, id)]
        /\ stats' = WithStats(stats, remove_connection(stats, Text(conns[id].tag), ClientOf(id)))
        /\ last' = [op |-> IF kind = "eof" THEN "end" ELSE "error",
                    tag |-> conns[id].tag, id |-> id, kind |-> kind]
    /\ UNCHANGED << idleVars, now, config, tasks, sup >>

\* the effect of stop() on the listener `tag`: Server.close() cancels
\* serve_forever; the Shadowsocks listener also runs _cleanup of each
\* connection in its map (427-432): the client writer is closed and
\* remove_connection called
Stopping(tag) ==
    /\ servers' = [servers EXCEPT ![tag] = Stop(@)]
    /\ tasks' = [tasks EXCEPT ![tag] = IF @ = "serving" THEN "cancelled" ELSE @]
    /\ IF tag = "shadowsocks"
       THEN /\ conns' = [id \in DOMAIN conns |->
                            IF id \in servers[tag].connections
                            THEN [conns[id] EXCEPT !.client = "closed"]
                            ELSE conns[id]]
            /\ stats' = WithStats(stats, RemoveAll(stats, servers[tag].connections))
       ELSE UNCHANGED << conns, stats >>

RECURSIVE Sum(_, _)
Sum(f, keys) ==
    IF keys = {} THEN 0
    ELSE LET k == CHOOSE x \in keys : TRUE IN f[k] + Sum(f, keys \ {k})
Stops == Sum(sup.stops, DOMAIN sup.stops)

\* a holder of the listener awaits its stop()
StopCall ==
    /\ sup.pc = "gather"
    /\ \E tag \in DOMAIN servers :
        /\ Stops < MaxStops
        /\ Stopping(tag)
        /\ sup' = [sup EXCEPT !.stops[tag] = @ + 1]
        /\ last' = [op |-> "stop", tag |-> tag]
    /\ UNCHANGED << idleVars, now, config >>

RECURSIVE InOrder(_, _)
InOrder(seq, set) ==
    IF seq = << >> THEN << >>
    ELSE IF Head(seq) \in set THEN << Head(seq) >> \o InOrder(Tail(seq), set)
    ELSE InOrder(Tail(seq), set)

\* server.py 202-208: the gather is over, cleanup begins
GatherReturns ==
    /\ sup.pc = "gather"
    /\ Gathered(tasks)
    /\ sup' = [sup EXCEPT !.pc = "cleanup", !.todo = InOrder(Protocols, DOMAIN servers)]
    /\ last' = [op |-> "gathered"]
    /\ UNCHANGED << idleVars, stats, now, config, servers, tasks, conns >>

\* server.py 215-221: cleanup awaits the stop() of the next listener
CleanupStop ==
    /\ sup.pc = "cleanup" /\ sup.todo # << >>
    /\ \E tag \in { Head(sup.todo) } :
        /\ Stopping(tag)
        /\ sup' = [sup EXCEPT !.todo = Tail(@), !.stops[tag] = @ + 1]
        /\ last' = [op |-> "stop", tag |-> tag]
    /\ UNCHANGED << idleVars, now, config >>

\* server.py 202-208: how start_servers ends once its gather is over; with
\* return_exceptions=True the exception of a start() is a result of the
\* gather, and cleanup catches what a stop() raises
StartServers(t) == "returned"
\* server.py 377-410: main catches an exception of start_servers, prints it
\* and calls sys.exit(1); when start_servers returns, main returns and the
\* process ends with code 0
ExitCode(outcome) == IF outcome = "raised" THEN 1 ELSE 0

\* server.py 424: start_servers and main have returned, and asyncio.run
\* cancels the tasks that are left: each runs its teardown
LoopExit ==
    /\ sup.pc = "cleanup" /\ sup.todo = << >>
    /\ sup' = [sup EXCEPT !.pc = "closed", !.exit = ExitCode(StartServers(tasks))]
    /\ conns' = [id \in DOMAIN conns |-> Ended(conns[id])]
    /\ servers' = [tag \in DOMAIN servers |-> [servers[tag] EXCEPT !.connections = {}]]
    /\ stats' = WithStats(stats, RemoveAll(stats, { id \in DOMAIN conns : conns[id].at # "ended" }))
    /\ last' = [op |-> "exit"]
    /\ UNCHANGED << idleVars, now, config, tasks >>

\* start_servers has built the Shadowsocks listener and one of the SOCKS5
\* and HTTP listeners from their enabled blocks and waits in its gather; the
\* listeners have a collector or none (stats=None)
PlainTags == { "socks5", "http" }
ListenerInit ==
    /\ TaskIdle
    /\ \E plain \in PlainTags, collector \in BOOLEAN :
        LET enabled == { "shadowsocks", plain }
        IN  /\ config = [tag \in ProtocolSet |->
                            IF tag \in enabled THEN Block(tag, "True") ELSE NoBlock]
            /\ servers = [tag \in enabled |-> Listener(ConfiguredPort[tag])]
            /\ tasks = [tag \in enabled |-> "created"]
            /\ sup = [pc |-> "gather", step |-> Len(Protocols) + 1, running |-> TRUE,
                      todo |-> << >>, stops |-> NoStops, collector |-> collector,
                      exit |-> "none"]
    /\ conns = EmptyMap

ListenerNext ==
    \/ ListenerStart \/ Accept \/ ConnProceed \/ ConnFail \/ ConnCopy \/ ConnEnd
    \/ StopCall \/ GatherReturns \/ CleanupStop \/ LoopExit
SpecListener == ListenerInit /\ [][ListenerNext]_vars
\* the event loop runs every coroutine that is ready
\* The same listeners without a collector, under the scheduling of the event
\* loop: every coroutine that is ready runs, and every read of a connection
\* task returns within its timeout, so that a handshake goes on or fails and
\* a relay copies a chunk or ends
FairInit == ListenerInit /\ ~sup.collector
Handshaking == ConnProceed \/ ConnFail
RelayStep == ConnCopy \/ ConnEnd
SpecListenerFair ==
    /\ FairInit /\ [][ListenerNext]_vars
    /\ WF_vars(ListenerStart) /\ WF_vars(GatherReturns)
    /\ WF_vars(CleanupStop) /\ WF_vars(LoopExit)
    /\ WF_vars(Handshaking) /\ WF_vars(RelayStep)

\* C24: every call of stop() leaves the listener with running = false and
\* an empty connections map; a call that follows another stop() of the same
\* listener, or that comes to a listener whose start() has not run, changes
\* nothing: listener, tasks, connections and collector are as they were.
C24_StopIsIdempotent ==
    [][\A tag \in DOMAIN servers :
        sup'.stops[tag] = sup.stops[tag] + 1 =>
            /\ servers'[tag].running = FALSE
            /\ servers'[tag].connections = {}
            /\ (\/ last = [op |-> "stop", tag |-> tag]
                \/ (tasks[tag] = "created" /\ servers[tag] = Listener(config[tag].port))) =>
                    /\ servers' = servers /\ tasks' = tasks
                    /\ conns' = conns /\ stats' = stats]_vars
\* a listener with a connection alive has just been stopped a second time
C24_Witness ==
    \E tag \in DOMAIN servers :
        /\ last = [op |-> "stop", tag |-> tag]
        /\ sup.stops[tag] = 2
        /\ tasks[tag] = "cancelled"
        /\ Live(tag) # {}

\* C27: an error of a connection (bad handshake, failed authentication,
\* decrypt failure, dial failure, I/O error, timeout) ends that connection's
\* task and nothing else: every start() task, every listener's server and
\* running flag and the supervisor are as before, and so are every other
\* connection's task, its entry in its listener's connections and its record
\* in the collector.
C27_ErrorsAreContained ==
    [][last'.op = "error" =>
        LET id == last'.id
            own == connection_id(Text(conns[id].tag), ClientOf(id))
        IN  /\ tasks' = tasks /\ sup' = sup
            /\ \A tag \in DOMAIN servers :
                /\ servers'[tag].running = servers[tag].running
                /\ servers'[tag].server = servers[tag].server
                /\ servers'[tag].connections \ {id} = servers[tag].connections \ {id}
            /\ \A other \in DOMAIN conns \ {id} : conns'[other] = conns[other]
            /\ \A k \in DOMAIN stats.active_connections \ {own} :
                /\ k \in DOMAIN stats'.active_connections
                /\ stats'.active_connections[k] = stats.active_connections[k]]_vars
\* a handshake has just failed on a listener that serves and has another
\* connection in its relay
C27_Witness ==
    /\ last.op = "error" /\ last.kind = "dial"
    /\ tasks[last.tag] = "serving" /\ servers[last.tag].running
    /\ conns[last.id].at = "ended"
    /\ \E other \in Relaying(last.tag) :
        /\ other \in servers[last.tag].connections
        /\ connection_id(Text(last.tag), ClientOf(other)) \in DOMAIN stats.active_connections

\* C28: when the start() of a listener fails to bind, only its own task ends:
\* every other listener and its task are as before, no connection is
\* touched and the supervisor stays in its gather; and the supervisor leaves
\* the gather only when no listener is starting or serving any more.
C28_ListenerErrorStaysLocal ==
    /\ []((\E tag \in DOMAIN tasks : tasks[tag] \in { "created", "serving" })
            => sup.pc = "gather")
    /\ [][(last'.op = "start" /\ ~last'.bound) =>
            /\ \A other \in DOMAIN servers \ {last'.tag} :
                /\ servers'[other] = servers[other]
                /\ tasks'[other] = tasks[other]
            /\ conns' = conns
            /\ sup' = sup /\ sup.pc = "gather"]_vars
\* after the bind of one listener failed, the other listener has accepted a
\* connection and the supervisor waits
C28_Witness ==
    /\ last.op = "accept"
    /\ \E failed \in DOMAIN tasks \ {last.tag} : tasks[failed] = "raised"
    /\ tasks[last.tag] = "serving" /\ servers[last.tag].running
    /\ sup.pc = "gather"

\* C25: right after a call of stop() the listener does not listen any more,
\* and every connection of the listener that is in its relay at that moment
\* comes to its end, with its client and upstream sockets closed.
C25_StopClosesRelays ==
    /\ [](last.op = "stop" => servers[last.tag].server # "listening")
    /\ \A id \in ConnIds :
        (/\ last.op = "stop" /\ id \in DOMAIN conns
         /\ conns[id].tag = last.tag /\ conns[id].at = "relay")
            ~> (/\ id \in DOMAIN conns /\ conns[id].at = "ended"
                /\ conns[id].client = "closed" /\ conns[id].upstream = "closed")

\* C29: every record of active_connections belongs to a connection whose
\* dial succeeded and whose task has not ended, a step that adds a record is
\* the step in which that connection's dial succeeds, and so whenever every
\* connection task has ended active_connections is empty.
RecordOf(id) == connection_id(Text(conns[id].tag), ClientOf(id))
C29_RecordsLiveWithTheirTask ==
    /\ [](\A k \in DOMAIN stats.active_connections :
            \E id \in DOMAIN conns :
                /\ k = RecordOf(id)
                /\ conns[id].at = "relay" /\ conns[id].upstream = "open")
    /\ []((\A id \in DOMAIN conns : conns[id].at = "ended")
            => DOMAIN stats.active_connections = {})
    /\ [][\A k \in DOMAIN stats'.active_connections \ DOMAIN stats.active_connections :
            \E id \in DOMAIN conns :
                /\ k = RecordOf(id)
                /\ conns[id].upstream = "none" /\ conns'[id].upstream = "open"]_vars
\* two connections had their records and have ended by themselves
C29_Witness ==
    /\ sup.pc = "gather" /\ sup.collector
    /\ stats.total_connections = 2
    /\ DOMAIN conns = ConnIds
    /\ \A id \in DOMAIN conns : conns[id].at = "ended" /\ conns[id].upstream = "closed"
    /\ \E id \in DOMAIN conns : conns[id].tag = "shadowsocks"
    /\ DOMAIN stats.active_connections = {}

(***************************************************************************)
(* Claims about the cipher state of a Shadowsocks relay, under SpecSS.     *)
(***************************************************************************)
\* a stream cipher that goes on from the position `offset` of its key stream
XorFrom(prim, key, iv, data, sign, offset) ==
    [i \in 1..Len(data) |->
        (data[i] + 256 + sign * KeyStream(prim, key, iv, offset + i)) % 256]
\* C31: with a stream method, the chunk the listener writes to the client in
\* a turn of the target-to-client copy is the chunk read from the target,
\* encrypted with the key stream that goes on where the chunks written
\* before ended, and not from the start of the key stream of the IV.
C31_StreamStateContinues ==
    [][(/\ protocol = "shadowsocks" /\ crypto_type(method) = "stream"
        /\ pc = "SSRelay"
        /\ Len(client_out') = Len(client_out) + 1)
        => client_out'[Len(client_out')].data =
                XorFrom(EncryptMode(method), _derive_key(method, password.s), iv_data,
                        SubSeq(urx, 1, Len(urx) - Len(urx')), 1,
                        Len(WrittenToClient))]_vars

(***************************************************************************)
(* The end of the process, under SpecListener.                             *)
(***************************************************************************)
\* C32: when the process has ended and the start() of some listener had
\* failed to bind, the exit code is 1.
C32_BindFailureExitsWithOne ==
    (sup.pc = "closed" /\ \E tag \in DOMAIN tasks : tasks[tag] = "raised")
        => sup.exit = 1

(***************************************************************************)
(* Malformed handshakes, under SpecSocks5.                                 *)
(***************************************************************************)
\* a greeting whose version byte is not 5, or that ends before its methods
MalformedGreeting(buf, eof) ==
    \/ Len(buf) >= 2 /\ buf[1] # SOCKS_VERSION
    \/ eof /\ (Len(buf) < 2 \/ Len(buf) < 2 + buf[2])
\* C33: when the SOCKS5 listener reads a malformed greeting from a client
\* that is still connected, it writes a rejection to the client before it
\* goes to close the connection.
C33_BadHandshakeRejected ==
    [][(/\ pc = "Greet" /\ pc' # "Greet"
        /\ ~client_lost /\ ~client_lost'
        /\ MalformedGreeting(rx, rx_eof))
        => /\ Len(client_out') > Len(client_out)
           /\ pc' = "Cleanup"]_vars

(***************************************************************************)
(* The idle timeout of the listeners start_servers builds, under SpecSetup.*)
(* _forward_data reads with timeout=self.timeout (socks5 356, http 315).   *)
(***************************************************************************)
\* C34: once start_servers waits on its gather, the timeout of the SOCKS5
\* listener and of the HTTP listener is the timeout of its configuration
\* block, and 300 when the block gives none.
C34_RelayTimeoutIsConfigured ==
    sup.pc = "gather" =>
        \A tag \in DOMAIN servers \cap { "socks5", "http" } :
            servers[tag].timeout =
                IF config[tag].has_timeout THEN config[tag].timeout ELSE 300

(***************************************************************************)
(* Authentication before anything else, under SpecSocks5.                  *)
(***************************************************************************)
AuthSuccessReply == Reply(<< USERPASS_VERSION, 0 >>)
AuthSuccessSent == \E i \in 1..Len(client_out) : client_out[i] = AuthSuccessReply
\* C35: on a listener with credentials, a connection that has dialled, has a
\* record or a count in the collector, has entered its relay or has had a
\* byte copied in either direction has been sent the reply 01 00 before.
C35_NothingBeforeAuthSuccess ==
    AuthConfigured =>
        ((\/ dial # "none" \/ upstream # "none"
          \/ pc \in { "Request", "Relay" }
          \/ fwd # [c2t |-> "idle", t2c |-> "idle"]
          \/ DOMAIN stats.active_connections # {}
          \/ stats.total_connections > 0
          \/ connections # {}
          \/ target_out # << >>
          \/ \E i \in 1..Len(client_out) : client_out[i].kind = "relay")
            => AuthSuccessSent)
\* with credentials, a relay has copied a chunk to the client
C35_Witness ==
    /\ AuthConfigured /\ AuthSuccessSent
    /\ dial = "ok" /\ stats.total_connections = 1
    /\ client_out[Len(client_out)].kind = "relay"
    /\ target_out # << >>

(***************************************************************************)
(* get_status and the enforcement of authentication, under SpecSocks5.     *)
(***************************************************************************)
\* socks5_server.py 398, http_server.py 357: 'auth_required': bool(self.username)
auth_required == Truthy(username)
\* C36: on a listener whose get_status() reports auth_required = true, a
\* connection comes to an upstream dial only after the client has presented
\* the configured credentials and been sent the reply 01 00.
C36_StatusAgreesWithEnforcement ==
    (auth_required /\ dial # "none") => AuthSuccessSent

(***************************************************************************)
(* The sockets at the end of a connection task, under SpecHttp.            *)
(***************************************************************************)
\* C37: when a connection task has ended, its client socket is closed, and
\* so is its upstream socket if the task opened one.
C37_NoSocketOutlivesItsTask ==
    pc = "Closed" => (client_writer = "closed" /\ upstream # "open")

(***************************************************************************)
(* The 502 reply of the HTTP listener, under SpecHttp.                     *)
(***************************************************************************)
\* C38: a 502 Bad Gateway written to a client that is still connected
\* follows a failed dial and comes before anything else: no 200 Connection
\* Established and no byte copied from the target was written before it.
C38_BadGatewayOnlyAfterFailedDial ==
    ~client_lost =>
        \A i \in 1..Len(client_out) :
            client_out[i] = Reply(BadGateway) =>
                /\ dial \notin { "none", "ok" }
                /\ \A j \in 1..(i - 1) :
                    /\ client_out[j].kind # "relay"
                    /\ client_out[j] # Reply(ConnectionEstablished)

(***************************************************************************)
(* Claims about the collector's counters under any order of calls.         *)
(***************************************************************************)
NoCounterNegative(s) ==
    /\ s.total_connections >= 0 /\ s.total_upload >= 0 /\ s.total_download >= 0
    /\ \A tag \in DOMAIN s.protocol_stats :
            /\ s.protocol_stats[tag].connections >= 0
            /\ s.protocol_stats[tag].upload >= 0
            /\ s.protocol_stats[tag].download >= 0
\* thread t is inside remove_connection for a key that has no record
RemovingAbsent(t) ==
    /\ threads[t].call.op = "remove_connection"
    /\ threads[t].at >= 1
    /\ connection_id(threads[t].call.protocol, threads[t].call.client_addr)
            \notin DOMAIN stats.active_connections

\* C39: under any sequence of add_connection, remove_connection, add_traffic
\* and reset_stats calls, a remove_connection for a key never added, already
\* removed or cleared by a reset included, no connection counter and no byte
\* counter of the collector is ever negative, and a remove_connection for a
\* key that is not in active_connections leaves the whole collector as it was.
C39_CountersNeverNegative ==
    /\ [] NoCounterNegative(stats)
    /\ [][ \A t \in Threads : RemovingAbsent(t) => stats' = stats ]_vars
\* remove_connection has returned a second time for a key added once, and
\* the key's protocol is left with a live counter of 0
C39_Witness ==
    /\ AllReturned
    /\ \E k \in ConnectionKeys :
        LET id == connection_id(k[1], k[2]) IN
        /\ Count(history.added, id) = 1
        /\ Count(history.removed, id) = 2
        /\ k[1] \in DOMAIN stats.protocol_stats
        /\ stats.protocol_stats[k[1]].connections = 0
        /\ id \notin DOMAIN stats.active_connections

(***************************************************************************)
(* Claims about what add_traffic leaves alone.                             *)
(***************************************************************************)
\* the bytes_sent and bytes_received of every record, as
\* get_active_connections lists them
RecordBytesZero(s) ==
    \A id \in DOMAIN s.active_connections :
        /\ s.active_connections[id].bytes_sent = 0
        /\ s.active_connections[id].bytes_received = 0

\* C40: a call of add_traffic leaves active_connections, with the
\* bytes_sent and bytes_received of every record, the total and every
\* per-protocol connection counter and start_time as they were, and leaves
\* the hourly ring as it was unless the hour has advanced; the byte fields
\* of every record are 0 for as long as the record is there.
C40_AddTrafficFrame ==
    /\ [] RecordBytesZero(stats)
    /\ [][ last'.op = "add_traffic" =>
            /\ stats'.active_connections = stats.active_connections
            /\ stats'.total_connections = stats.total_connections
            /\ \A tag \in StatsTags : LiveCounter(stats', tag) = LiveCounter(stats, tag)
            /\ stats'.start_time = stats.start_time
            /\ now' \div HOUR <= stats.last_hour_update =>
                    /\ stats'.hourly_stats = stats.hourly_stats
                    /\ stats'.last_hour_update = stats.last_hour_update ]_vars
\* bytes have been counted in a new hour while a record was live
C40_Witness ==
    /\ last.op = "add_traffic"
    /\ DOMAIN stats.active_connections # {}
    /\ RecordBytesZero(stats)
    /\ stats.total_upload > 0
    /\ stats.hourly_stats # << >>
    /\ stats.hourly_stats[Len(stats.hourly_stats)].hour = last.time \div HOUR
    /\ stats.hourly_stats[Len(stats.hourly_stats)].connections > 0
    /\ stats.hourly_stats[Len(stats.hourly_stats)].upload > 0
    /\ stats.start_time < last.time

====
